---- MODULE Spec2Model ----
(***************************************************************************)
(* ContentCraft Pro: the React client (App.js, Dashboard.jsx,              *)
(* CreateProject.jsx, ProjectEditor.jsx) and the project / section /       *)
(* revision / feedback store behind its REST endpoints.                    *)
(*                                                                         *)
(* The client is modelled from its source.  The backend (server.py) is not *)
(* among the sources; its endpoints are modelled from the design document  *)
(* (sections 3 to 7): the definitions prefixed Srv and Api and the store   *)
(* writes RefineSection, SubmitFeedback and DeleteProject.                 *)
(*                                                                         *)
(* React semantics that the model keeps: a handler reads the state of the  *)
(* render in which it was created.  After an await it still holds those    *)
(* values, so setX({...x, ...}) and setX(x.map(...)) written after an      *)
(* await are computed from the captured value, not from the current one.   *)
(* Every request in flight therefore carries the captured state.           *)
(***************************************************************************)
EXTENDS Integers, Sequences, FiniteSets, TLC

\* ------------------------------------------------------------------ bounds
MaxSections == 2      \* section titles a project is created with, at most
MaxCalls == 2         \* generateContent invocations per editor instance
MaxOps == 3           \* user gestures in an editor; API calls on the store
MaxInFlight == 2      \* requests of the App awaiting their response handler

Clients == {1, 2}     \* browser sessions (two tabs, or the original and a retry)
Identities == {"A", "B"}
ProjectIds == {1, 2}
Orders == 0 .. (MaxSections - 1)
SectionIds == ProjectIds \X Orders      \* <<project, order index>>

Null == "null"        \* a section row whose content is not yet generated
Absent == "absent"    \* no such row
NoOne == "nobody"
GenTexts == {"g1", "g2"}   \* what the generation capability may return
RefTexts == {"r1", "r2"}   \* what the refinement capability may return
Prompts == {"p1", "p2"}    \* refinement instructions the user types
CommentTexts == {" ", "n1", " n2"}   \* what the user types into a comment box
Sentiments == {"like", "dislike"}

\* ------------------------------------------------------------------- state
VARIABLES
  dbOwner,      \* [ProjectIds -> Identities \cup {NoOne}]: owner of every id ever issued
  dbProjects,   \* the project rows that exist
  dbContent,    \* [SectionIds -> text, Null or Absent]: the section rows
  dbRevisions,  \* [SectionIds -> Seq([prompt, response])], in creation order
  dbFeedback,   \* set of feedback rows [sid, sentiment, comment]
  dbComments,   \* [SectionIds -> Seq(text)], in creation order
  genPass,      \* [ProjectIds -> the running generation pass, or NoPass]
  firstGen,     \* [ProjectIds -> the sections as the first completed pass left them]
  user,         \* [Clients -> identity]: App useState(null), whose session it is
  edProject,    \* [Clients -> ProjectIds]: useParams().projectId of the editor
  sections,     \* [Clients -> Seq(section display record)]: useState([])
  generating,   \* [Clients -> BOOLEAN]: useState(false)
  notice,       \* [Clients -> the last toast of the generation flow]
  pollTimer,    \* [Clients -> the interval generateContent started, if any]
  genCall,      \* [Clients -> the editor's POST /generate-content in flight]
  callsMade,    \* [Clients -> number of generateContent invocations so far]
  refinePrompt, \* [Clients -> [SectionIds -> text]]: useState({})
  refining,     \* [Clients -> [SectionIds -> BOOLEAN]]: useState({})
  feedback,     \* [Clients -> [SectionIds -> sentiment]]: useState({})
  comments,     \* [Clients -> [SectionIds -> text]]: useState({}), the comment inputs
  reqs,         \* [Clients -> set of refine / feedback / comment requests in flight]
  opsMade,      \* [Clients -> number of user gestures and API calls so far]
  last,         \* the last completed operation, for the properties that speak of it
  ssToken,      \* [Clients -> token]: sessionStorage 'token'
  ssUser,       \* [Clients -> identity]: sessionStorage 'user'
  token,        \* [Clients -> token]: App useState(null)
  authHeader,   \* [Clients -> token]: axios.defaults.headers.common['Authorization']
  isInitialized, \* [Clients -> BOOLEAN]: App useState(false)
  http,         \* [Clients -> set of requests whose response has yet to be handled]
  projects,     \* [Clients -> set of project ids]: Dashboard useState([])
  deleting,     \* [Clients -> project id or NoProject]: Dashboard useState(null)
  dashReqs,     \* [Clients -> set of Dashboard requests in flight]
  dbConfig,     \* [ProjectIds -> number of section titles the project is configured with]
  screen,       \* [Clients -> the screen the router shows]
  loading,      \* [Clients -> BOOLEAN]: ProjectEditor useState(true)
  calls,        \* [Clients -> set of handler invocations waiting at an await]
  timers,       \* [Clients -> set of running setInterval timers]
  projectData,  \* CreateProject useState({name, type, topic, outline, slides})
  step,         \* CreateProject useState(1): 1 the type cards, 2 the form
  aiLoading,    \* CreateProject useState(false)
  formLoading,  \* CreateProject useState(false), its `loading`
  formReqs,     \* the requests of CreateProject awaiting their response handler
  formOps       \* number of gestures made on the CreateProject screen so far

vars == <<dbOwner, dbProjects, dbContent, dbRevisions, dbFeedback, dbComments,
          genPass, firstGen, user, edProject, sections, generating, notice, pollTimer,
          genCall, callsMade, refinePrompt, refining, feedback, comments, reqs, opsMade,
          last, ssToken, ssUser, token, authHeader, isInitialized, http,
          projects, deleting, dashReqs, dbConfig, screen, loading, calls, timers,
          projectData, step, aiLoading, formLoading, formReqs, formOps>>

appVars == <<ssToken, ssUser, token, authHeader, isInitialized, http>>
dashVars == <<projects, deleting, dashReqs>>
lifeVars == <<dbConfig, screen, loading, calls, timers>>
createVars == <<projectData, step, aiLoading, formLoading, formReqs, formOps>>

dbVars == <<dbOwner, dbProjects, dbContent, dbRevisions, dbFeedback, dbComments>>
genVars == <<genPass, firstGen, generating, notice, pollTimer, genCall, callsMade>>
formVars == <<refinePrompt, refining, feedback, comments, reqs, opsMade>>

\* --------------------------------------------------------- store (design 3)
SectionsOf(p) == {s \in SectionIds : s[1] = p /\ dbContent[s] # Absent}

NumSections(p) == Cardinality(SectionsOf(p))

Filled(c) == c # Null /\ c # Absent

\* "if every Section already has non-null content"
AllGenerated(p) == \A s \in SectionsOf(p) : dbContent[s] # Null

\* A section as the server sends it: no feedback, comments or revisions in it.
RawSection(s, c) ==
  [id |-> s, content |-> c, persistedComments |-> << >>,
   revisionHistory |-> << >>, liked |-> FALSE, disliked |-> FALSE]

\* GET /projects/{id}/sections: the rows by order index.
SrvSections(p) ==
  [i \in 1 .. NumSections(p) |-> RawSection(<<p, i - 1>>, dbContent[<<p, i - 1>>])]

\* An ownership check that only looks for the row
SrvAuthorize_Unchecked(c, p) == IF p \notin dbProjects THEN "not_found" ELSE "ok"

\* Ownership check of design 4.3: an id owned by another identity is refused
\* before its existence is looked at; an id of the caller's own, or one never
\* issued, that has no row is not found.
SrvAuthorize(c, p) ==
  IF dbOwner[p] # NoOne /\ dbOwner[p] # c THEN "forbidden"
  ELSE IF p \notin dbProjects THEN "not_found"
  ELSE "ok"

\* ------------------------------------------- generation orchestrator (4.1)
NoPass == [client |-> 0, next |-> 0]
NotYet == << >>

\* A POST /generate-content of an editor: where it is (pc), the upstream calls
\* made on its behalf (llm), the server's answer (kind, body), whether the
\* answer was lost on the way (lost), whether it reached the server after a
\* pass had completed (after), whether another call was outstanding at some
\* moment of its lifetime (overlapped).
NoCall == [pc |-> "idle", llm |-> 0, kind |-> "none", body |-> << >>,
           lost |-> FALSE, after |-> FALSE, overlapped |-> FALSE]

Outstanding(k) == genCall[k].pc \in {"sent", "running", "responded"}

Respond(k, kind, body) ==
  genCall' = [genCall EXCEPT ![k] =
                [@ EXCEPT !.pc = "responded", !.kind = kind, !.body = body,
                          !.after = firstGen[edProject[k]] # NotYet]]

\* Faulty variant: the check-then-act without the per-project serialization.
SrvGenReceive_Unserialized(k) ==
  LET p == edProject[k] IN
  /\ genCall[k].pc = "sent"
  /\ IF AllGenerated(p)
       THEN Respond(k, "already_generated", SrvSections(p)) /\ UNCHANGED genPass
     ELSE /\ genPass' = [genPass EXCEPT ![p] = [client |-> k, next |-> 0]]
          /\ genCall' = [genCall EXCEPT ![k] =
                           [@ EXCEPT !.pc = "running", !.after = firstGen[p] # NotYet]]
  /\ UNCHANGED <<dbVars, firstGen, user, edProject, appVars, dashVars, lifeVars, createVars, sections, generating, notice, pollTimer,
                 callsMade, formVars, last>>

\* POST /generate-content reaches the server: the check-then-act on the
\* sections' content-null state, serialized per project (design 5).
SrvGenReceive(k) ==
  LET p == edProject[k] IN
  /\ genCall[k].pc = "sent"
  /\ IF SrvAuthorize(user[k], p) # "ok"
       THEN Respond(k, SrvAuthorize(user[k], p), << >>) /\ UNCHANGED genPass
     ELSE IF AllGenerated(p)
       THEN Respond(k, "already_generated", SrvSections(p)) /\ UNCHANGED genPass
     ELSE IF genPass[p] # NoPass
       THEN Respond(k, "already_generating", << >>) /\ UNCHANGED genPass
     ELSE /\ genPass' = [genPass EXCEPT ![p] = [client |-> k, next |-> 0]]
          /\ genCall' = [genCall EXCEPT ![k] =
                           [@ EXCEPT !.pc = "running", !.after = firstGen[p] # NotYet]]
  /\ UNCHANGED <<dbVars, firstGen, user, edProject, appVars, dashVars, lifeVars, createVars, sections, generating, notice, pollTimer,
                 callsMade, formVars, last>>

\* First order index at or after i whose section still has null content.
RECURSIVE NextNull(_, _)
NextNull(p, i) ==
  IF i >= NumSections(p) THEN i
  ELSE IF dbContent[<<p, i>>] = Null THEN i
  ELSE NextNull(p, i + 1)

\* One upstream call of the pass succeeds: the next section in order index
\* order gets its content.
SrvGenSection(p) ==
  LET k == genPass[p].client
      i == NextNull(p, genPass[p].next) IN
  /\ genPass[p] # NoPass
  /\ i < NumSections(p)
  /\ \E t \in GenTexts : dbContent' = [dbContent EXCEPT ![<<p, i>>] = t]
  /\ genPass' = [genPass EXCEPT ![p].next = i + 1]
  /\ genCall' = [genCall EXCEPT ![k].llm = @ + 1]
  /\ UNCHANGED <<dbOwner, dbProjects, dbRevisions, dbFeedback, dbComments, firstGen,
                 user, edProject, appVars, dashVars, lifeVars, createVars, sections, generating, notice, pollTimer, callsMade,
                 formVars, last>>

\* Faulty variant: a failed pass is rolled back.
SrvGenSectionFails_RolledBack(p) ==
  LET k == genPass[p].client
      i == NextNull(p, genPass[p].next) IN
  /\ genPass[p] # NoPass
  /\ i < NumSections(p)
  /\ genPass' = [genPass EXCEPT ![p] = NoPass]
  /\ dbContent' = [s \in SectionIds |-> IF s \in SectionsOf(p) THEN Null ELSE dbContent[s]]
  /\ genCall' = [genCall EXCEPT ![k] =
                   [@ EXCEPT !.pc = "responded", !.llm = @ + 1, !.kind = "partial",
                             !.body = [n \in 1 .. NumSections(p) |-> RawSection(<<p, n - 1>>, Null)]]]
  /\ UNCHANGED <<dbOwner, dbProjects, dbRevisions, dbFeedback, dbComments, firstGen,
                 user, edProject, appVars, dashVars, lifeVars, createVars, sections, generating, notice, pollTimer, callsMade,
                 formVars, last>>

\* One upstream call of the pass fails: the pass ends, nothing is rolled back,
\* and the caller gets the partially filled sections.
SrvGenSectionFails(p) ==
  LET k == genPass[p].client
      i == NextNull(p, genPass[p].next) IN
  /\ genPass[p] # NoPass
  /\ i < NumSections(p)
  /\ genPass' = [genPass EXCEPT ![p] = NoPass]
  /\ genCall' = [genCall EXCEPT ![k] =
                   [@ EXCEPT !.pc = "responded", !.llm = @ + 1, !.kind = "partial",
                             !.body = SrvSections(p)]]
  /\ UNCHANGED <<dbVars, firstGen, user, edProject, appVars, dashVars, lifeVars, createVars, sections, generating, notice, pollTimer,
                 callsMade, formVars, last>>

\* The pass has filled every section: the caller gets the full set.
SrvGenFinish(p) ==
  LET k == genPass[p].client IN
  /\ genPass[p] # NoPass
  /\ NextNull(p, genPass[p].next) >= NumSections(p)
  /\ genPass' = [genPass EXCEPT ![p] = NoPass]
  /\ genCall' = [genCall EXCEPT ![k] =
                   [@ EXCEPT !.pc = "responded", !.kind = "generated",
                             !.body = SrvSections(p)]]
  /\ firstGen' = [firstGen EXCEPT ![p] = IF @ = NotYet THEN SrvSections(p) ELSE @]
  /\ UNCHANGED <<dbVars, user, edProject, appVars, dashVars, lifeVars, createVars, sections, generating, notice, pollTimer,
                 callsMade, formVars, last>>

\* ------------------------------------------------ read endpoints (design 6)
RECURSIVE Reverse(_)
Reverse(q) == IF q = << >> THEN << >> ELSE Append(Reverse(Tail(q)), Head(q))

FeedbackRows(s) == {r \in dbFeedback : r.sid = s}

\* GET /sections/{id}/feedback
SrvGetFeedback(s) ==
  IF FeedbackRows(s) = {}
    THEN [feedback |-> "none", comment |-> "", liked |-> FALSE, disliked |-> FALSE]
    ELSE LET r == CHOOSE r \in FeedbackRows(s) : TRUE IN
         [feedback |-> r.sentiment, comment |-> r.comment,
          liked |-> r.sentiment = "like", disliked |-> r.sentiment = "dislike"]

\* GET /sections/{id}/revisions: most recent first.
SrvGetRevisions(s) == Reverse(dbRevisions[s])

\* GET /sections/{id}/comments: most recent first.
SrvGetComments(s) == Reverse(dbComments[s])

\* ------------------------------------------------ ProjectEditor.fetchProject
\* The section list fetchProject builds: every section of the response with
\* the feedback, comments and revisions fetched for it.
SectionsWithData(p) ==
  [i \in 1 .. NumSections(p) |->
     LET s == <<p, i - 1>> IN
     [id |-> s, content |-> dbContent[s],
      persistedComments |-> SrvGetComments(s),
      revisionHistory |-> SrvGetRevisions(s),
      liked |-> SrvGetFeedback(s).liked,
      disliked |-> SrvGetFeedback(s).disliked]]

\* setFeedback(prev => ({...prev, [sectionId]: ...})) for every section fetched
FetchedFeedback(k, p) ==
  [s \in SectionIds |->
     IF s \in SectionsOf(p) THEN SrvGetFeedback(s).feedback ELSE feedback[k][s]]

\* setComments(prev => ({...prev, [sectionId]: feedbackRes.data.comment || ''}))
FetchedComments(k, p) ==
  [s \in SectionIds |->
     IF s \in SectionsOf(p) THEN SrvGetFeedback(s).comment ELSE comments[k][s]]

\* The state fetchProject leaves when its requests succeed.
fetchProject(k) ==
  /\ sections' = [sections EXCEPT ![k] = SectionsWithData(edProject[k])]
  /\ feedback' = [feedback EXCEPT ![k] = FetchedFeedback(k, edProject[k])]
  /\ comments' = [comments EXCEPT ![k] = FetchedComments(k, edProject[k])]

\* --------------------------------------------- ProjectEditor.generateContent
\* Up to the await: the guard on the generating flag, the flag, the toast and
\* the POST.
generateContent(k) ==
  /\ genCall[k].pc = "idle"
  /\ callsMade[k] < MaxCalls
  /\ IF generating[k]
       THEN /\ notice' = [notice EXCEPT ![k] = "in_progress"]
            /\ UNCHANGED <<generating, genCall>>
       ELSE /\ generating' = [generating EXCEPT ![k] = TRUE]
            /\ notice' = [notice EXCEPT ![k] = "starting"]
            /\ genCall' = [j \in Clients |->
                  IF j = k
                    THEN [NoCall EXCEPT !.pc = "sent",
                            !.overlapped = \E i \in Clients \ {k} : Outstanding(i)]
                  ELSE IF Outstanding(j) THEN [genCall[j] EXCEPT !.overlapped = TRUE]
                  ELSE genCall[j]]
  /\ callsMade' = [callsMade EXCEPT ![k] = @ + 1]
  /\ UNCHANGED <<dbVars, genPass, firstGen, user, edProject, appVars, dashVars, lifeVars, createVars, sections, pollTimer, formVars, last>>

\* The toast the try / catch ends with, by the response.
GenerationNotice(kind) ==
  CASE kind = "already_generated" -> "ready"
    [] kind = "generated" -> "generated"
    [] kind = "network" -> "processing"
    [] OTHER -> "failed"

\* The interval the try / catch starts, by the response.
GenerationTimer(kind, timer) ==
  CASE kind = "generated" -> "progressCheck"
    [] kind = "network" -> "checkInterval"
    [] OTHER -> timer

\* Faulty variant: the sections of the response are not read.
AlreadyGeneratedSections_Dropped(r) == << >>

\* setSections(response.data.sections || [])
AlreadyGeneratedSections(r) == r.body

\* What axios hands the handler: the server's answer, or ERR_NETWORK.
Outcome(r) == IF r.lost THEN "network" ELSE r.kind

\* After the await: the response is handled and the flag is cleared.
generateContentReturns(k) ==
  LET r == [genCall[k] EXCEPT !.kind = Outcome(genCall[k])] IN
  /\ r.pc = "responded"
  /\ CASE r.kind = "already_generated" ->
            /\ sections' = [sections EXCEPT ![k] = AlreadyGeneratedSections(r)]
            /\ UNCHANGED <<feedback, comments>>
       [] r.kind = "generated" -> fetchProject(k)
       [] OTHER -> UNCHANGED <<sections, feedback, comments>>
  /\ notice' = [notice EXCEPT ![k] = GenerationNotice(r.kind)]
  /\ pollTimer' = [pollTimer EXCEPT ![k] = GenerationTimer(r.kind, @)]
  /\ generating' = [generating EXCEPT ![k] = FALSE]
  /\ genCall' = [genCall EXCEPT ![k].pc = "idle"]
  /\ UNCHANGED <<dbVars, genPass, firstGen, user, edProject, appVars, dashVars, lifeVars, createVars, callsMade, refinePrompt,
                 refining, reqs, opsMade, last>>

\* The request or its response is lost: axios rejects with ERR_NETWORK.  A
\* pass that has started goes on at the server.
NetworkError(k) ==
  /\ genCall[k].pc \in {"sent", "responded"}
  /\ ~genCall[k].lost
  /\ genCall' = [genCall EXCEPT ![k] = [@ EXCEPT !.pc = "responded", !.lost = TRUE]]
  /\ UNCHANGED <<dbVars, genPass, firstGen, user, edProject, appVars, dashVars, lifeVars, createVars, sections, generating, notice,
                 pollTimer, callsMade, formVars, last>>

\* ---------------------------------------------------------------- SpecGen
\* Two sessions of the owner have the editor open on project 1, whose sections
\* were seeded with null content when it was created.
\* The token the server issues to an identity, and the identity of a token.
TokenOf(i) == IF i = "A" THEN "tA" ELSE IF i = "B" THEN "tB" ELSE Null
IdentityOf(tok) == IF tok = "tA" THEN "A" ELSE IF tok = "tB" THEN "B" ELSE NoOne

\* App after login(token, userData) of identity u[k] in every session k.
InitSession(u) ==
  /\ ssToken = [k \in Clients |-> TokenOf(u[k])]
  /\ ssUser = u
  /\ token = [k \in Clients |-> TokenOf(u[k])]
  /\ authHeader = [k \in Clients |-> TokenOf(u[k])]
  /\ isInitialized = [k \in Clients |-> TRUE]
  /\ http = [k \in Clients |-> {}]

NoProject == 0

EmptyForm == [s \in SectionIds |-> ""]
NoLast == [op |-> "none", client |-> 0, sid |-> <<0, 0>>, kind |-> "none"]

InitClients ==
  /\ generating = [k \in Clients |-> FALSE]
  /\ notice = [k \in Clients |-> "none"]
  /\ pollTimer = [k \in Clients |-> "none"]
  /\ genCall = [k \in Clients |-> NoCall]
  /\ callsMade = [k \in Clients |-> 0]
  /\ refinePrompt = [k \in Clients |-> EmptyForm]
  /\ refining = [k \in Clients |-> [s \in SectionIds |-> FALSE]]
  /\ feedback = [k \in Clients |-> [s \in SectionIds |-> "none"]]
  /\ comments = [k \in Clients |-> EmptyForm]
  /\ reqs = [k \in Clients |-> {}]
  /\ opsMade = [k \in Clients |-> 0]
  /\ last = NoLast
  /\ genPass = [p \in ProjectIds |-> NoPass]
  /\ firstGen = [p \in ProjectIds |-> NotYet]
  /\ projects = [k \in Clients |-> {}]
  /\ deleting = [k \in Clients |-> NoProject]
  /\ dashReqs = [k \in Clients |-> {}]

\* Every session has the editor open and loaded, with no handler waiting and
\* no interval running; the sections that exist are those the projects were
\* configured with.
\* CreateProject as it is mounted: the type cards, an empty form with one
\* empty title per type.
NewProjectData == [name |-> "", type |-> "", topic |-> "", outline |-> <<"">>, slides |-> <<"">>]

InitCreateProject ==
  /\ projectData = NewProjectData
  /\ step = 1
  /\ aiLoading = FALSE
  /\ formLoading = FALSE
  /\ formReqs = {}
  /\ formOps = 0

InitLoaded ==
  /\ InitCreateProject
  /\ dbConfig = [p \in ProjectIds |-> NumSections(p)]
  /\ screen = [k \in Clients |-> "editor"]
  /\ loading = [k \in Clients |-> FALSE]
  /\ calls = [k \in Clients |-> {}]
  /\ timers = [k \in Clients |-> {}]

InitGen ==
  /\ \E n \in 1 .. MaxSections :
       dbContent = [s \in SectionIds |-> IF s[1] = 1 /\ s[2] < n THEN Null ELSE Absent]
  /\ dbOwner = [p \in ProjectIds |-> IF p = 1 THEN "A" ELSE NoOne]
  /\ dbProjects = {1}
  /\ dbRevisions = [s \in SectionIds |-> << >>]
  /\ dbFeedback = {}
  /\ dbComments = [s \in SectionIds |-> << >>]
  /\ user = [k \in Clients |-> "A"]
  /\ InitSession([k \in Clients |-> "A"])
  /\ edProject = [k \in Clients |-> 1]
  /\ sections = [k \in Clients |-> << >>]
  /\ InitClients
  /\ InitLoaded

NextGen ==
  \/ \E k \in Clients : generateContent(k)
  \/ \E k \in Clients : SrvGenReceive(k)
  \/ \E p \in ProjectIds : SrvGenSection(p)
  \/ \E p \in ProjectIds : SrvGenSectionFails(p)
  \/ \E p \in ProjectIds : SrvGenFinish(p)
  \/ \E k \in Clients : generateContentReturns(k)
  \/ \E k \in Clients : NetworkError(k)

SpecGen == InitGen /\ [][NextGen]_vars

\* ------------------------------------------ refine and feedback (4.1, 4.2)
\* String.prototype.trim on the texts of the model.
Trim(c) ==
  CASE c = " " -> ""
    [] c = " n2" -> "n2"
    [] c = " b" -> "b"
    [] OTHER -> c

\* refineSection: the content is replaced and a Revision is appended that
\* records the instruction and the new content.
RefineSection(s, prompt, t) ==
  /\ dbContent' = [dbContent EXCEPT ![s] = t]
  /\ dbRevisions' = [dbRevisions EXCEPT ![s] = Append(@, [prompt |-> prompt, response |-> t])]

\* POST /refine-content succeeds.
SrvRefineContent(k, r) ==
  /\ r \in reqs[k] /\ r.op = "refine" /\ r.st = "sent"
  /\ Filled(dbContent[r.sid])
  /\ \E t \in RefTexts :
       /\ RefineSection(r.sid, r.prompt, t)
       /\ reqs' = [reqs EXCEPT ![k] = (@ \ {r}) \cup {[r EXCEPT !.st = "ok", !.content = t]}]
  /\ UNCHANGED <<dbOwner, dbProjects, dbFeedback, dbComments, genVars, user, edProject, appVars, dashVars, lifeVars, createVars,
                 sections, refinePrompt, refining, feedback, comments, opsMade, last>>

\* submitFeedback that adds a row on every call
UpsertFeedback_Appends(rows, s, fb, c) ==
  rows \cup {[sid |-> s, sentiment |-> IF fb = "" THEN "none" ELSE fb, comment |-> c]}

\* submitFeedback: the upsert of the section's single Feedback row; an omitted
\* sentiment keeps the previous one.
UpsertFeedback(rows, s, fb, c) ==
  LET old == {x \in rows : x.sid = s}
      prev == IF old = {} THEN "none" ELSE (CHOOSE x \in old : TRUE).sentiment IN
  (rows \ old) \cup {[sid |-> s, sentiment |-> IF fb = "" THEN prev ELSE fb, comment |-> c]}

\* addComment: a blank text is rejected, any other is appended.
AppendComment(rows, c) == IF Trim(c) = "" THEN rows ELSE Append(rows, c)

\* The one write behind POST /feedback, which serves both the feedback and the
\* comment concern.
SubmitFeedback(s, fb, c) ==
  /\ dbFeedback' = UpsertFeedback(dbFeedback, s, fb, c)
  /\ dbComments' = [dbComments EXCEPT ![s] = AppendComment(@, c)]

\* POST /feedback { section_id, feedback, comment }
SrvPostFeedback(k, r) ==
  /\ r \in reqs[k] /\ r.op \in {"feedback", "comment"} /\ r.st = "sent"
  /\ dbContent[r.sid] # Absent
  /\ SubmitFeedback(r.sid, r.fb, r.comment)
  /\ reqs' = [reqs EXCEPT ![k] = (@ \ {r}) \cup {[r EXCEPT !.st = "ok"]}]
  /\ UNCHANGED <<dbOwner, dbProjects, dbContent, dbRevisions, genVars, user, edProject, appVars, dashVars, lifeVars, createVars,
                 sections, refinePrompt, refining, feedback, comments, opsMade, last>>

\* The request fails: the refinement capability fails, the server rejects the
\* request, or the request never arrives.  The store is left as it was.
SrvRequestFails(k, r) ==
  /\ r \in reqs[k] /\ r.st = "sent"
  /\ reqs' = [reqs EXCEPT ![k] = (@ \ {r}) \cup {[r EXCEPT !.st = "fail"]}]
  /\ UNCHANGED <<dbVars, genVars, user, edProject, appVars, dashVars, lifeVars, createVars, sections, refinePrompt, refining,
                 feedback, comments, opsMade, last>>

\* ------------------------------------------------- ProjectEditor handlers
\* A request with the state of the render whose handler sent it.
Request(k, op, s, prompt, fb, c) ==
  [id |-> opsMade[k] + 1, op |-> op, sid |-> s, prompt |-> prompt, fb |-> fb,
   comment |-> c, st |-> "sent", content |-> "",
   cSections |-> sections[k],
   cRefinePrompt |-> IF op = "refine" THEN refinePrompt[k] ELSE EmptyForm,
   cRefining |-> IF op = "refine" THEN refining[k] ELSE [x \in SectionIds |-> FALSE],
   cFeedback |-> IF op = "feedback" THEN feedback[k] ELSE [x \in SectionIds |-> "none"],
   cComments |-> IF op = "comment" THEN comments[k] ELSE EmptyForm]

Send(k, r) ==
  /\ opsMade[k] < MaxOps
  /\ reqs' = [reqs EXCEPT ![k] = @ \cup {r}]
  /\ opsMade' = [opsMade EXCEPT ![k] = @ + 1]

Shown(k) == {sections[k][i].id : i \in 1 .. Len(sections[k])}

\* onChange of a refinement textarea
typeRefinePrompt(k, s, v) ==
  /\ s \in Shown(k) /\ ~generating[k]
  /\ refinePrompt[k][s] # v
  /\ opsMade[k] < MaxOps
  /\ refinePrompt' = [refinePrompt EXCEPT ![k][s] = v]
  /\ opsMade' = [opsMade EXCEPT ![k] = @ + 1]
  /\ UNCHANGED <<dbVars, genVars, user, edProject, appVars, dashVars, lifeVars, createVars, sections, refining, feedback,
                 comments, reqs, last>>

\* onChange of a comment textarea
typeComment(k, s, v) ==
  /\ s \in Shown(k) /\ ~generating[k]
  /\ comments[k][s] # v
  /\ opsMade[k] < MaxOps
  /\ comments' = [comments EXCEPT ![k][s] = v]
  /\ opsMade' = [opsMade EXCEPT ![k] = @ + 1]
  /\ UNCHANGED <<dbVars, genVars, user, edProject, appVars, dashVars, lifeVars, createVars, sections, refinePrompt, refining,
                 feedback, reqs, last>>

\* handleRefine up to the await (the button is disabled while refining[s])
handleRefine(k, s) ==
  /\ s \in Shown(k) /\ ~generating[k]
  /\ ~refining[k][s]
  /\ refinePrompt[k][s] # ""
  /\ refining' = [refining EXCEPT ![k][s] = TRUE]
  /\ Send(k, Request(k, "refine", s, refinePrompt[k][s], "", ""))
  /\ UNCHANGED <<dbVars, genVars, user, edProject, appVars, dashVars, lifeVars, createVars, sections, refinePrompt, feedback,
                 comments, last>>

\* The revision handleRefine puts in front of the history.
newRevision(r) == [prompt |-> r.cRefinePrompt[r.sid], response |-> r.content]

Refined(r, s) ==
  [s EXCEPT !.content = r.content,
            !.revisionHistory = <<newRevision(r)>> \o s.revisionHistory]

\* handleRefine that builds the revision from the prompt field as it is when
\* the response arrives
handleRefineDone_ReadsPromptLate(k, r) ==
  /\ r \in reqs[k] /\ r.op = "refine" /\ r.st = "ok"
  /\ sections' = [sections EXCEPT ![k] =
                    [i \in 1 .. Len(r.cSections) |->
                       IF r.cSections[i].id = r.sid
                         THEN [r.cSections[i] EXCEPT
                                 !.content = r.content,
                                 !.revisionHistory =
                                   <<[prompt |-> refinePrompt[k][r.sid],
                                      response |-> r.content]>> \o @]
                         ELSE r.cSections[i]]]
  /\ refinePrompt' = [refinePrompt EXCEPT ![k] = [r.cRefinePrompt EXCEPT ![r.sid] = ""]]
  /\ refining' = [refining EXCEPT ![k] = [r.cRefining EXCEPT ![r.sid] = FALSE]]
  /\ reqs' = [reqs EXCEPT ![k] = @ \ {r}]
  /\ last' = [op |-> "refine", client |-> k, sid |-> r.sid, kind |-> "ok"]
  /\ UNCHANGED <<dbVars, genVars, user, edProject, appVars, dashVars, lifeVars, createVars, feedback, comments, opsMade>>

\* handleRefine after the await, on success
handleRefineDone(k, r) ==
  /\ r \in reqs[k] /\ r.op = "refine" /\ r.st = "ok"
  /\ sections' = [sections EXCEPT ![k] =
                    [i \in 1 .. Len(r.cSections) |->
                       IF r.cSections[i].id = r.sid THEN Refined(r, r.cSections[i])
                       ELSE r.cSections[i]]]
  /\ refinePrompt' = [refinePrompt EXCEPT ![k] = [r.cRefinePrompt EXCEPT ![r.sid] = ""]]
  /\ refining' = [refining EXCEPT ![k] = [r.cRefining EXCEPT ![r.sid] = FALSE]]
  /\ reqs' = [reqs EXCEPT ![k] = @ \ {r}]
  /\ last' = [op |-> "refine", client |-> k, sid |-> r.sid, kind |-> "ok"]
  /\ UNCHANGED <<dbVars, genVars, user, edProject, appVars, dashVars, lifeVars, createVars, feedback, comments, opsMade>>

\* handleRefine whose catch branch shows the refinement all the same
handleRefineFailed_ShowsRevision(k, r) ==
  /\ r \in reqs[k] /\ r.op = "refine" /\ r.st = "fail"
  /\ sections' = [sections EXCEPT ![k] =
                    [i \in 1 .. Len(r.cSections) |->
                       IF r.cSections[i].id = r.sid THEN Refined(r, r.cSections[i])
                       ELSE r.cSections[i]]]
  /\ refining' = [refining EXCEPT ![k] = [r.cRefining EXCEPT ![r.sid] = FALSE]]
  /\ reqs' = [reqs EXCEPT ![k] = @ \ {r}]
  /\ last' = [op |-> "refine", client |-> k, sid |-> r.sid, kind |-> "fail"]
  /\ UNCHANGED <<dbVars, genVars, user, edProject, appVars, dashVars, lifeVars, createVars, refinePrompt, feedback,
                 comments, opsMade>>

\* handleRefine after the await, on failure
handleRefineFailed(k, r) ==
  /\ r \in reqs[k] /\ r.op = "refine" /\ r.st = "fail"
  /\ refining' = [refining EXCEPT ![k] = [r.cRefining EXCEPT ![r.sid] = FALSE]]
  /\ reqs' = [reqs EXCEPT ![k] = @ \ {r}]
  /\ last' = [op |-> "refine", client |-> k, sid |-> r.sid, kind |-> "fail"]
  /\ UNCHANGED <<dbVars, genVars, user, edProject, appVars, dashVars, lifeVars, createVars, sections, refinePrompt, feedback,
                 comments, opsMade>>

\* comments[sectionId] || ''
FeedbackComment(k, s) == comments[k][s]

\* handleFeedback up to the await
handleFeedback(k, s, feedbackType) ==
  /\ s \in Shown(k) /\ ~generating[k]
  /\ Send(k, Request(k, "feedback", s, "", feedbackType, FeedbackComment(k, s)))
  /\ UNCHANGED <<dbVars, genVars, user, edProject, appVars, dashVars, lifeVars, createVars, sections, refinePrompt, refining,
                 feedback, comments, last>>

Marked(r, s) == [s EXCEPT !.liked = (r.fb = "like"), !.disliked = (r.fb = "dislike")]

\* handleFeedback after the await, on success
handleFeedbackDone(k, r) ==
  /\ r \in reqs[k] /\ r.op = "feedback" /\ r.st = "ok"
  /\ feedback' = [feedback EXCEPT ![k] = [r.cFeedback EXCEPT ![r.sid] = r.fb]]
  /\ sections' = [sections EXCEPT ![k] =
                    [i \in 1 .. Len(r.cSections) |->
                       IF r.cSections[i].id = r.sid THEN Marked(r, r.cSections[i])
                       ELSE r.cSections[i]]]
  /\ reqs' = [reqs EXCEPT ![k] = @ \ {r}]
  /\ last' = [op |-> "feedback", client |-> k, sid |-> r.sid, kind |-> "ok"]
  /\ UNCHANGED <<dbVars, genVars, user, edProject, appVars, dashVars, lifeVars, createVars, refinePrompt, refining, comments, opsMade>>

\* feedback[sectionId] || ''
CommentFeedback(k, s) == IF feedback[k][s] = "none" THEN "" ELSE feedback[k][s]

\* handleComment up to the await (returns at once on a blank text)
handleComment(k, s) ==
  /\ s \in Shown(k) /\ ~generating[k]
  /\ Trim(comments[k][s]) # ""
  /\ Send(k, Request(k, "comment", s, "", CommentFeedback(k, s), Trim(comments[k][s])))
  /\ UNCHANGED <<dbVars, genVars, user, edProject, appVars, dashVars, lifeVars, createVars, sections, refinePrompt, refining,
                 feedback, comments, last>>

Commented(r, s) ==
  [s EXCEPT !.persistedComments = <<[comment |-> r.comment]>> \o s.persistedComments]

\* handleComment after the await, on success
handleCommentDone(k, r) ==
  /\ r \in reqs[k] /\ r.op = "comment" /\ r.st = "ok"
  /\ sections' = [sections EXCEPT ![k] =
                    [i \in 1 .. Len(r.cSections) |->
                       IF r.cSections[i].id = r.sid THEN Commented(r, r.cSections[i])
                       ELSE r.cSections[i]]]
  /\ comments' = [comments EXCEPT ![k] = [r.cComments EXCEPT ![r.sid] = ""]]
  /\ reqs' = [reqs EXCEPT ![k] = @ \ {r}]
  /\ last' = [op |-> "comment", client |-> k, sid |-> r.sid, kind |-> "ok"]
  /\ UNCHANGED <<dbVars, genVars, user, edProject, appVars, dashVars, lifeVars, createVars, refinePrompt, refining, feedback, opsMade>>

\* handleFeedback and handleComment that reflect the write before it is
\* answered and keep the reflection when it fails
handleWriteFailed_Optimistic(k, r) ==
  /\ r \in reqs[k] /\ r.op \in {"feedback", "comment"} /\ r.st = "fail"
  /\ feedback' = [feedback EXCEPT ![k][r.sid] = IF r.op = "feedback" THEN r.fb ELSE @]
  /\ sections' = [sections EXCEPT ![k] =
                    [i \in 1 .. Len(@) |->
                       IF @[i].id # r.sid THEN @[i]
                       ELSE IF r.op = "feedback" THEN Marked(r, @[i]) ELSE Commented(r, @[i])]]
  /\ comments' = [comments EXCEPT ![k][r.sid] = IF r.op = "comment" THEN "" ELSE @]
  /\ reqs' = [reqs EXCEPT ![k] = @ \ {r}]
  /\ last' = [op |-> r.op, client |-> k, sid |-> r.sid, kind |-> "fail"]
  /\ UNCHANGED <<dbVars, genVars, user, edProject, appVars, dashVars, lifeVars, createVars, refinePrompt, refining,
                 opsMade>>

\* handleFeedback and handleComment after the await, on failure: a toast only
handleWriteFailed(k, r) ==
  /\ r \in reqs[k] /\ r.op \in {"feedback", "comment"} /\ r.st = "fail"
  /\ reqs' = [reqs EXCEPT ![k] = @ \ {r}]
  /\ last' = [op |-> r.op, client |-> k, sid |-> r.sid, kind |-> "fail"]
  /\ UNCHANGED <<dbVars, genVars, user, edProject, appVars, dashVars, lifeVars, createVars, sections, refinePrompt, refining,
                 feedback, comments, opsMade>>

\* --------------------------------------------------------------- SpecEditor
\* One session of the owner has loaded the editor on project 1, whose two
\* sections are generated; nothing has been refined, rated or commented yet.
Editor == 1
EditorSections == {<<1, 0>>, <<1, 1>>}

InitEditor ==
  /\ dbContent = [s \in SectionIds |-> IF s \in EditorSections THEN "g1" ELSE Absent]
  /\ dbOwner = [p \in ProjectIds |-> IF p = 1 THEN "A" ELSE NoOne]
  /\ dbProjects = {1}
  /\ dbRevisions = [s \in SectionIds |-> << >>]
  /\ dbFeedback = {}
  /\ dbComments = [s \in SectionIds |-> << >>]
  /\ user = [k \in Clients |-> "A"]
  /\ InitSession([k \in Clients |-> "A"])
  /\ edProject = [k \in Clients |-> 1]
  /\ sections = [k \in Clients |->
                   IF k = Editor
                     THEN [i \in 1 .. 2 |-> RawSection(<<1, i - 1>>, "g1")]
                     ELSE << >>]
  /\ InitClients
  /\ InitLoaded

NextEditor ==
  \/ \E s \in SectionIds, v \in Prompts : typeRefinePrompt(Editor, s, v)
  \/ \E s \in SectionIds, v \in CommentTexts : typeComment(Editor, s, v)
  \/ \E s \in SectionIds : handleRefine(Editor, s)
  \/ \E s \in SectionIds, f \in Sentiments : handleFeedback(Editor, s, f)
  \/ \E s \in SectionIds : handleComment(Editor, s)
  \/ \E r \in reqs[Editor] : SrvRefineContent(Editor, r)
  \/ \E r \in reqs[Editor] : SrvPostFeedback(Editor, r)
  \/ \E r \in reqs[Editor] : SrvRequestFails(Editor, r)
  \/ \E r \in reqs[Editor] : handleRefineDone(Editor, r)
  \/ \E r \in reqs[Editor] : handleRefineFailed(Editor, r)
  \/ \E r \in reqs[Editor] : handleFeedbackDone(Editor, r)
  \/ \E r \in reqs[Editor] : handleCommentDone(Editor, r)
  \/ \E r \in reqs[Editor] : handleWriteFailed(Editor, r)

SpecEditor == InitEditor /\ [][NextEditor]_vars

\* ------------------------------------- project store and ownership (4.3)
\* Ownership check for a section: the owning project first, then the row.
SrvAuthorizeSection(c, s) ==
  LET a == SrvAuthorize(c, s[1]) IN
  IF a # "ok" THEN a ELSE IF dbContent[s] = Absent THEN "not_found" ELSE "ok"

\* deleteProject that leaves the descendants of the sections behind
DeleteProject_KeepsRows(p) ==
  /\ dbProjects' = dbProjects \ {p}
  /\ dbContent' = [s \in SectionIds |-> IF s[1] = p THEN Absent ELSE dbContent[s]]
  /\ UNCHANGED <<dbOwner, dbRevisions, dbFeedback, dbComments>>

\* deleteProject: the project row and, transitively, its Sections, Revisions,
\* Feedback and Comments are removed.
DeleteProject(p) ==
  /\ dbProjects' = dbProjects \ {p}
  /\ dbContent' = [s \in SectionIds |-> IF s[1] = p THEN Absent ELSE dbContent[s]]
  /\ dbRevisions' = [s \in SectionIds |-> IF s[1] = p THEN << >> ELSE dbRevisions[s]]
  /\ dbFeedback' = {x \in dbFeedback : x.sid[1] # p}
  /\ dbComments' = [s \in SectionIds |-> IF s[1] = p THEN << >> ELSE dbComments[s]]
  /\ UNCHANGED dbOwner

ProjectOps == {"get_project", "get_sections", "export"}
SectionOps == {"get_revisions", "get_feedback", "get_comments"}

\* The answer to a read by identity c, GET /projects/{id}, /projects/{id}/sections,
\* /export/{id}, /sections/{id}/revisions | feedback | comments: of the project
\* of s, or of the section s.  A read changes nothing.
SrvRead(c, op, s) == IF op \in ProjectOps THEN SrvAuthorize(c, s[1]) ELSE SrvAuthorizeSection(c, s)

Called(k, op, s, kind) == [op |-> op, client |-> k, sid |-> s, kind |-> kind]

\* The calls made so far by all sessions together.
CallsSoFar == opsMade[1] + opsMade[2]

Counted(k) ==
  /\ CallsSoFar < MaxOps
  /\ opsMade' = [opsMade EXCEPT ![k] = @ + 1]

storeFrame == <<genVars, user, edProject, appVars, lifeVars, createVars, sections, refinePrompt, refining,
                feedback, comments, reqs>>

\* POST /refine-content sent with the token of session k
ApiRefine(k, s, prompt, t) ==
  /\ Counted(k)
  /\ LET a == SrvAuthorizeSection(user[k], s) IN
       /\ last' = Called(k, "refine", s, a)
       /\ IF a = "ok"
            THEN RefineSection(s, prompt, t) /\ UNCHANGED <<dbOwner, dbProjects, dbFeedback, dbComments>>
            ELSE UNCHANGED dbVars
  /\ UNCHANGED <<storeFrame, dashVars>>

\* POST /feedback sent with the token of session k
ApiFeedback(k, s, fb, c) ==
  /\ Counted(k)
  /\ LET a == SrvAuthorizeSection(user[k], s) IN
       /\ last' = Called(k, "feedback", s, a)
       /\ IF a = "ok"
            THEN SubmitFeedback(s, fb, c) /\ UNCHANGED <<dbOwner, dbProjects, dbContent, dbRevisions>>
            ELSE UNCHANGED dbVars
  /\ UNCHANGED <<storeFrame, dashVars>>

\* POST /generate-content for a project whose sections all have content
ApiGenerate(k, p) ==
  /\ Counted(k)
  /\ AllGenerated(p) \/ SrvAuthorize(user[k], p) # "ok"
  /\ last' = Called(k, "generate", <<p, 0>>, SrvAuthorize(user[k], p))
  /\ UNCHANGED <<dbVars, storeFrame, dashVars>>

\* DELETE /projects/{id} sent with the token of session k
ApiDelete(k, p) ==
  /\ Counted(k)
  /\ LET a == SrvAuthorize(user[k], p) IN
       /\ last' = Called(k, "delete", <<p, 0>>, a)
       /\ IF a = "ok" THEN DeleteProject(p) ELSE UNCHANGED dbVars
  /\ UNCHANGED <<storeFrame, dashVars>>

\* ------------------------------------------------------------- Dashboard
DashRequest(k, op, p) ==
  [id |-> opsMade[k] + 1, op |-> op, pid |-> p, st |-> "sent", body |-> {},
   cProjects |-> IF op = "delete" THEN projects[k] ELSE {}]

\* fetchProjects up to the await
fetchProjects(k) ==
  /\ Counted(k)
  /\ dashReqs' = [dashReqs EXCEPT ![k] = @ \cup {DashRequest(k, "list", NoProject)}]
  /\ UNCHANGED <<dbVars, storeFrame, projects, deleting, last>>

\* GET /projects: the projects the caller owns
SrvListProjects(k, r) ==
  /\ r \in dashReqs[k] /\ r.op = "list" /\ r.st = "sent"
  /\ dashReqs' = [dashReqs EXCEPT ![k] =
                    (@ \ {r}) \cup {[r EXCEPT !.st = "ok",
                                              !.body = {p \in dbProjects : dbOwner[p] = user[k]}]}]
  /\ UNCHANGED <<dbVars, storeFrame, projects, deleting, opsMade, last>>

\* fetchProjects after the await
fetchProjectsDone(k, r) ==
  /\ r \in dashReqs[k] /\ r.op = "list" /\ r.st # "sent"
  /\ projects' = [projects EXCEPT ![k] = IF r.st = "ok" THEN r.body ELSE @]
  /\ dashReqs' = [dashReqs EXCEPT ![k] = @ \ {r}]
  /\ UNCHANGED <<dbVars, storeFrame, deleting, opsMade, last>>

\* handleDeleteProject up to the await, window.confirm accepted (the button
\* of a project is disabled while it is the one being deleted)
handleDeleteProject(k, p) ==
  /\ p \in projects[k] /\ deleting[k] # p
  /\ Counted(k)
  /\ deleting' = [deleting EXCEPT ![k] = p]
  /\ dashReqs' = [dashReqs EXCEPT ![k] = @ \cup {DashRequest(k, "delete", p)}]
  /\ UNCHANGED <<dbVars, storeFrame, projects, last>>

\* DELETE /projects/{id} of the Dashboard
SrvDeleteProject(k, r) ==
  /\ r \in dashReqs[k] /\ r.op = "delete" /\ r.st = "sent"
  /\ LET a == SrvAuthorize(user[k], r.pid) IN
       /\ last' = Called(k, "delete", <<r.pid, 0>>, a)
       /\ IF a = "ok" THEN DeleteProject(r.pid) ELSE UNCHANGED dbVars
       /\ dashReqs' = [dashReqs EXCEPT ![k] =
                         (@ \ {r}) \cup {[r EXCEPT !.st = IF a = "ok" THEN "ok" ELSE "fail"]}]
  /\ UNCHANGED <<storeFrame, projects, deleting, opsMade>>

\* A Dashboard request is lost before it reaches the server.
DashRequestFails(k, r) ==
  /\ r \in dashReqs[k] /\ r.st = "sent"
  /\ dashReqs' = [dashReqs EXCEPT ![k] = (@ \ {r}) \cup {[r EXCEPT !.st = "fail"]}]
  /\ UNCHANGED <<dbVars, storeFrame, projects, deleting, opsMade, last>>

\* handleDeleteProject after the await
handleDeleteProjectDone(k, r) ==
  /\ r \in dashReqs[k] /\ r.op = "delete" /\ r.st # "sent"
  /\ projects' = [projects EXCEPT ![k] = IF r.st = "ok" THEN r.cProjects \ {r.pid} ELSE @]
  /\ deleting' = [deleting EXCEPT ![k] = NoProject]
  /\ dashReqs' = [dashReqs EXCEPT ![k] = @ \ {r}]
  /\ UNCHANGED <<dbVars, storeFrame, opsMade, last>>

\* ---------------------------------------------------------------- SpecStore
\* Two sessions, of identity A and of identity B, on their dashboards.  Both
\* projects exist, generated; the first section of each has been refined once,
\* rated and commented.
InitStore ==
  /\ dbProjects = ProjectIds
  /\ \E o \in Identities : dbOwner = [p \in ProjectIds |-> IF p = 1 THEN "A" ELSE o]
  /\ dbContent = [s \in SectionIds |-> IF s[2] = 0 THEN "r1" ELSE "g1"]
  /\ dbRevisions = [s \in SectionIds |->
                      IF s[2] = 0 THEN <<[prompt |-> "p1", response |-> "r1"]>> ELSE << >>]
  /\ dbFeedback = {[sid |-> <<p, 0>>, sentiment |-> "like", comment |-> "n1"] : p \in ProjectIds}
  /\ dbComments = [s \in SectionIds |-> IF s[2] = 0 THEN <<"n1">> ELSE << >>]
  /\ user = [k \in Clients |-> IF k = 1 THEN "A" ELSE "B"]
  /\ InitSession([k \in Clients |-> IF k = 1 THEN "A" ELSE "B"])
  /\ edProject = [k \in Clients |-> 1]
  /\ sections = [k \in Clients |-> << >>]
  /\ InitClients
  /\ InitLoaded

NextStore ==
  \/ \E k \in Clients, s \in SectionIds : ApiRefine(k, s, "p2", "r2")
  \/ \E k \in Clients, s \in SectionIds : ApiFeedback(k, s, "dislike", "n2")
  \/ \E k \in Clients, p \in ProjectIds : ApiGenerate(k, p)
  \/ \E k \in Clients, p \in ProjectIds : ApiDelete(k, p)
  \/ \E k \in Clients : fetchProjects(k)
  \/ \E k \in Clients : \E r \in dashReqs[k] : SrvListProjects(k, r)
  \/ \E k \in Clients : \E r \in dashReqs[k] : fetchProjectsDone(k, r)
  \/ \E k \in Clients, p \in ProjectIds : handleDeleteProject(k, p)
  \/ \E k \in Clients : \E r \in dashReqs[k] : SrvDeleteProject(k, r)
  \/ \E k \in Clients : \E r \in dashReqs[k] : DashRequestFails(k, r)
  \/ \E k \in Clients : \E r \in dashReqs[k] : handleDeleteProjectDone(k, r)

SpecStore == InitStore /\ [][NextStore]_vars

\* ------------------------------------------------------------------- App
Unauthorized == 401
NoResponse == 0
Statuses == {200, Unauthorized, 500, NoResponse}

appFrame == <<dbVars, genVars, edProject, sections, formVars, last, dashVars, lifeVars, createVars>>

\* An axios request: what it is for, the Authorization header it was sent
\* with, the identity a login asks for, and how far its response has come.
HttpRequest(k, kind, who) ==
  [kind |-> kind, tok |-> authHeader[k], who |-> who, st |-> "sent", status |-> NoResponse]

HttpSend(k, r) ==
  /\ Cardinality(http[k]) < MaxInFlight
  /\ http' = [http EXCEPT ![k] = @ \cup {r}]

\* initializeAuth up to the await: with no stored token the App is initialized
\* at once, with one the token is put in the header and validated.
initializeAuth(k) ==
  /\ ~isInitialized[k] /\ http[k] = {}
  /\ IF ssToken[k] = Null
       THEN /\ isInitialized' = [isInitialized EXCEPT ![k] = TRUE]
            /\ UNCHANGED <<authHeader, http>>
       ELSE /\ authHeader' = [authHeader EXCEPT ![k] = ssToken[k]]
            /\ http' = [http EXCEPT ![k] =
                          {[kind |-> "validate", tok |-> ssToken[k], who |-> NoOne,
                            st |-> "sent", status |-> NoResponse]}]
            /\ UNCHANGED isInitialized
  /\ UNCHANGED <<ssToken, ssUser, token, user, appFrame>>

\* The response to a request arrives, or the request fails without one.
HttpResponds(k, r, status) ==
  /\ r \in http[k] /\ r.st = "sent"
  /\ http' = [http EXCEPT ![k] = (@ \ {r}) \cup {[r EXCEPT !.st = "responded", !.status = status]}]
  /\ UNCHANGED <<ssToken, ssUser, token, user, authHeader, isInitialized, appFrame>>

\* The response interceptor that leaves the Authorization header in place
interceptor_KeepsHeader(k, r) ==
  /\ r \in http[k] /\ r.st = "responded"
  /\ IF r.status = Unauthorized
       THEN /\ ssToken' = [ssToken EXCEPT ![k] = Null]
            /\ ssUser' = [ssUser EXCEPT ![k] = NoOne]
            /\ token' = [token EXCEPT ![k] = Null]
            /\ user' = [user EXCEPT ![k] = NoOne]
            /\ UNCHANGED authHeader
       ELSE UNCHANGED <<ssToken, ssUser, token, user, authHeader>>
  /\ http' = [http EXCEPT ![k] = (@ \ {r}) \cup {[r EXCEPT !.st = "intercepted"]}]
  /\ UNCHANGED <<isInitialized, appFrame>>

\* The axios response interceptor: on status 401 the session is dropped; the
\* response or the error is then passed on to the handler that sent the request.
interceptor(k, r) ==
  /\ r \in http[k] /\ r.st = "responded"
  /\ IF r.status = Unauthorized
       THEN /\ ssToken' = [ssToken EXCEPT ![k] = Null]
            /\ ssUser' = [ssUser EXCEPT ![k] = NoOne]
            /\ token' = [token EXCEPT ![k] = Null]
            /\ user' = [user EXCEPT ![k] = NoOne]
            /\ authHeader' = [authHeader EXCEPT ![k] = Null]
       ELSE UNCHANGED <<ssToken, ssUser, token, user, authHeader>>
  /\ http' = [http EXCEPT ![k] = (@ \ {r}) \cup {[r EXCEPT !.st = "intercepted"]}]
  /\ UNCHANGED <<isInitialized, appFrame>>

\* initializeAuth that logs in under the stored token whatever the answer
initializeAuthResumes_KeepsSession(k, r) ==
  /\ r \in http[k] /\ r.kind = "validate" /\ r.st = "intercepted"
  /\ token' = [token EXCEPT ![k] = r.tok]
  /\ user' = [user EXCEPT ![k] = IdentityOf(r.tok)]
  /\ isInitialized' = [isInitialized EXCEPT ![k] = TRUE]
  /\ http' = [http EXCEPT ![k] = @ \ {r}]
  /\ last' = [op |-> "initializeAuth", client |-> k, sid |-> <<0, 0>>,
              kind |-> IF r.status = 200 THEN "ok" ELSE "fail"]
  /\ UNCHANGED <<ssToken, ssUser, authHeader, dbVars, genVars, edProject, sections, formVars,
                 dashVars, lifeVars, createVars>>

\* initializeAuth after the await
initializeAuthResumes(k, r) ==
  /\ r \in http[k] /\ r.kind = "validate" /\ r.st = "intercepted"
  /\ IF r.status = 200
       THEN /\ token' = [token EXCEPT ![k] = r.tok]
            /\ user' = [user EXCEPT ![k] = IdentityOf(r.tok)]
            /\ UNCHANGED <<ssToken, ssUser, authHeader>>
       ELSE /\ ssToken' = [ssToken EXCEPT ![k] = Null]
            /\ ssUser' = [ssUser EXCEPT ![k] = NoOne]
            /\ authHeader' = [authHeader EXCEPT ![k] = Null]
            /\ UNCHANGED <<token, user>>
  /\ isInitialized' = [isInitialized EXCEPT ![k] = TRUE]
  /\ http' = [http EXCEPT ![k] = @ \ {r}]
  /\ last' = [op |-> "initializeAuth", client |-> k, sid |-> <<0, 0>>,
              kind |-> IF r.status = 200 THEN "ok" ELSE "fail"]
  /\ UNCHANGED <<dbVars, genVars, edProject, sections, formVars, dashVars, lifeVars, createVars>>

\* Auth.handleSubmit up to the await (/auth is routed to Auth only without a
\* token; the submit button is disabled while a submission is loading)
handleSubmit(k, i) ==
  /\ isInitialized[k] /\ token[k] = Null
  /\ \A r \in http[k] : r.kind # "login"
  /\ HttpSend(k, HttpRequest(k, "login", i))
  /\ UNCHANGED <<ssToken, ssUser, token, user, authHeader, isInitialized, appFrame>>

\* A login that keeps the session in memory only
login_SkipsStorage(k, tok, userData) ==
  /\ token' = [token EXCEPT ![k] = tok]
  /\ user' = [user EXCEPT ![k] = userData]
  /\ authHeader' = [authHeader EXCEPT ![k] = tok]
  /\ UNCHANGED <<ssToken, ssUser>>

\* App.login
login(k, tok, userData) ==
  /\ ssToken' = [ssToken EXCEPT ![k] = tok]
  /\ ssUser' = [ssUser EXCEPT ![k] = userData]
  /\ token' = [token EXCEPT ![k] = tok]
  /\ user' = [user EXCEPT ![k] = userData]
  /\ authHeader' = [authHeader EXCEPT ![k] = tok]

\* Auth.handleSubmit after the await
handleSubmitResumes(k, r) ==
  /\ r \in http[k] /\ r.kind = "login" /\ r.st = "intercepted"
  /\ IF r.status = 200
       THEN login(k, TokenOf(r.who), r.who)
       ELSE UNCHANGED <<ssToken, ssUser, token, user, authHeader>>
  /\ http' = [http EXCEPT ![k] = @ \ {r}]
  /\ UNCHANGED <<isInitialized, appFrame>>

\* App.logout, the Dashboard's onLogout
logout(k) ==
  /\ isInitialized[k] /\ token[k] # Null
  /\ ssToken' = [ssToken EXCEPT ![k] = Null]
  /\ ssUser' = [ssUser EXCEPT ![k] = NoOne]
  /\ token' = [token EXCEPT ![k] = Null]
  /\ user' = [user EXCEPT ![k] = NoOne]
  /\ authHeader' = [authHeader EXCEPT ![k] = Null]
  /\ UNCHANGED <<isInitialized, http, appFrame>>

\* Any request of the Dashboard, CreateProject or ProjectEditor, which are
\* routed only with a token
apiRequest(k) ==
  /\ isInitialized[k] /\ token[k] # Null
  /\ HttpSend(k, HttpRequest(k, "api", NoOne))
  /\ UNCHANGED <<ssToken, ssUser, token, user, authHeader, isInitialized, appFrame>>

\* The handler of such a request resumes; it touches nothing of the session.
apiResumes(k, r) ==
  /\ r \in http[k] /\ r.kind = "api" /\ r.st = "intercepted"
  /\ http' = [http EXCEPT ![k] = @ \ {r}]
  /\ UNCHANGED <<ssToken, ssUser, token, user, authHeader, isInitialized, appFrame>>

\* The page is loaded anew: sessionStorage survives, the App's state, the
\* axios defaults and the pending handlers do not.
reload(k) ==
  /\ isInitialized[k]
  /\ token' = [token EXCEPT ![k] = Null]
  /\ user' = [user EXCEPT ![k] = NoOne]
  /\ authHeader' = [authHeader EXCEPT ![k] = Null]
  /\ isInitialized' = [isInitialized EXCEPT ![k] = FALSE]
  /\ http' = [http EXCEPT ![k] = {}]
  /\ UNCHANGED <<ssToken, ssUser, appFrame>>

\* The routes of the App: the element the route of a path renders, where
\* "->p" is <Navigate to=p />.
Paths == {"/", "/auth", "/dashboard", "/create", "/project/:projectId"}
Protected == {"Dashboard", "CreateProject", "ProjectEditor"}

\* Routes that render the screen of a path whatever the token
Route_Unguarded(k, path) ==
  CASE path = "/" -> IF token[k] # Null THEN "->/dashboard" ELSE "->/auth"
    [] path = "/auth" -> "Auth"
    [] path = "/dashboard" -> "Dashboard"
    [] path = "/create" -> "CreateProject"
    [] OTHER -> "ProjectEditor"

Route(k, path) ==
  CASE path = "/" -> IF token[k] # Null THEN "->/dashboard" ELSE "->/auth"
    [] path = "/auth" -> IF token[k] = Null THEN "Auth" ELSE "->/dashboard"
    [] path = "/dashboard" -> IF token[k] # Null THEN "Dashboard" ELSE "->/auth"
    [] path = "/create" -> IF token[k] # Null THEN "CreateProject" ELSE "->/auth"
    [] OTHER -> IF token[k] # Null THEN "ProjectEditor" ELSE "->/auth"

\* What the App renders at a path: the loading screen until the auth state is
\* initialized, then the element of the route, a Navigate being followed.
RECURSIVE Follow(_, _, _)
Follow(k, path, hops) ==
  LET e == Route(k, path) IN
  CASE e = "->/auth" /\ hops > 0 -> Follow(k, "/auth", hops - 1)
    [] e = "->/dashboard" /\ hops > 0 -> Follow(k, "/dashboard", hops - 1)
    [] OTHER -> e

Screen(k, path) ==
  IF ~isInitialized[k] THEN "Loading" ELSE Follow(k, path, Cardinality(Paths))

\* ------------------------------------------------------------------ SpecApp
\* One browser tab, freshly loaded with an empty sessionStorage.
Tab == 1

InitApp ==
  /\ dbProjects = {}
  /\ dbOwner = [p \in ProjectIds |-> NoOne]
  /\ dbContent = [s \in SectionIds |-> Absent]
  /\ dbRevisions = [s \in SectionIds |-> << >>]
  /\ dbFeedback = {}
  /\ dbComments = [s \in SectionIds |-> << >>]
  /\ user = [k \in Clients |-> NoOne]
  /\ ssToken = [k \in Clients |-> Null]
  /\ ssUser = [k \in Clients |-> NoOne]
  /\ token = [k \in Clients |-> Null]
  /\ authHeader = [k \in Clients |-> Null]
  /\ isInitialized = [k \in Clients |-> FALSE]
  /\ http = [k \in Clients |-> {}]
  /\ edProject = [k \in Clients |-> 1]
  /\ sections = [k \in Clients |-> << >>]
  /\ InitClients
  /\ InitLoaded

NextApp ==
  \/ initializeAuth(Tab)
  \/ \E r \in http[Tab], status \in Statuses : HttpResponds(Tab, r, status)
  \/ \E r \in http[Tab] : interceptor(Tab, r)
  \/ \E r \in http[Tab] : initializeAuthResumes(Tab, r)
  \/ \E i \in Identities : handleSubmit(Tab, i)
  \/ \E r \in http[Tab] : handleSubmitResumes(Tab, r)
  \/ logout(Tab)
  \/ apiRequest(Tab)
  \/ \E r \in http[Tab] : apiResumes(Tab, r)
  \/ reload(Tab)

SpecApp == InitApp /\ [][NextApp]_vars

\* ------------------------------------------------ editor lifecycle: state
MaxInvocations == 3   \* generateContent invocations of the editor instance

Mounted(k) == screen[k] = "editor"

\* An interval started by generateContent.  Its callback is a closure of the
\* render of that invocation: it reads that render's sections (cEmpty:
\* sections.length === 0) and calls that render's fetchProject, whose
\* generateContent reads that render's generating flag (cGenerating).
\* Intervals of one kind and one closure have the same period and the same
\* callback and differ only in when their setTimeout fires: timers holds one
\* record for them, from the start of the first to the timeout of the last.
NoTimer == [kind |-> "none", cEmpty |-> TRUE, cGenerating |-> FALSE]

\* A handler invocation waiting at an await.  stack holds its frames, the
\* innermost last: "C" handleCreate at POST /projects, "F" fetchProject at its
\* GETs, "Ff" fetchProject at `await generateContent()`, "G" generateContent
\* at its POST, "Gf" generateContent at `await fetchProject()` of the try
\* branch, "Ge" the same of the catch branch, "T" a checkInterval callback and
\* "P" a progressCheck callback at `await fetchProject()`.  gen numbers the
\* innermost generateContent invocation, n is the number of valid titles of a
\* creation and p the id it was answered with, pc / res / body are the request
\* awaited and its answer.
NewCall(origin, stack, tm, cEmpty, cGenerating) ==
  [origin |-> origin, stack |-> stack, timer |-> tm, cEmpty |-> cEmpty,
   cGenerating |-> cGenerating, gen |-> 0, n |-> 0, p |-> NoProject, pc |-> "sent",
   res |-> "none", body |-> << >>]

Top(c) == c.stack[Len(c.stack)]
Rest(c) == SubSeq(c.stack, 1, Len(c.stack) - 1)
PostOutstanding(k) == {c \in calls[k] : Top(c) = "G"}

\* The part of the editor's state the generation flow writes.
Flow(k) ==
  [loading |-> loading[k], generating |-> generating[k], timers |-> timers[k],
   notice |-> notice[k]]

\* setState of an unmounted component is dropped; timers and toasts are not
\* the component's.
Commit(k, st) ==
  /\ loading' = [loading EXCEPT ![k] = IF Mounted(k) THEN st.loading ELSE @]
  /\ generating' = [generating EXCEPT ![k] = IF Mounted(k) THEN st.generating ELSE @]
  /\ timers' = [timers EXCEPT ![k] = st.timers]
  /\ notice' = [notice EXCEPT ![k] = st.notice]

\* The frames of an invocation run to their end, the innermost first:
\* fetchProject's finally clears loading; generateContent starts
\* progressCheck after the fetch of its try branch and its finally clears
\* generating; a checkInterval callback clears its interval if the sections
\* of its render are not empty.
RECURSIVE Unwind(_, _, _)
Unwind(c, stack, st) ==
  IF stack = << >> THEN st
  ELSE
    LET f == stack[Len(stack)]
        progressCheck == [kind |-> "progressCheck", cEmpty |-> c.cEmpty,
                          cGenerating |-> c.cGenerating]
        st2 == CASE f \in {"F", "Ff"} -> [st EXCEPT !.loading = FALSE]
                 [] f = "Gf" -> [st EXCEPT !.timers = @ \cup {progressCheck},
                                           !.generating = FALSE]
                 [] f \in {"G", "Ge"} -> [st EXCEPT !.generating = FALSE]
                 [] f = "T" /\ ~c.cEmpty -> [st EXCEPT !.timers = @ \ {c.timer},
                                                       !.notice = "now_ready"]
                 [] OTHER -> st
    IN Unwind(c, SubSeq(stack, 1, Len(stack) - 1), st2)

\* The invocation c ends: its frames run to their end from state st.
Finish(k, c, st) ==
  /\ Commit(k, Unwind(c, c.stack, st))
  /\ calls' = [calls EXCEPT ![k] = @ \ {c}]

lifeFrame == <<genPass, firstGen, genCall, pollTimer, refinePrompt, refining, reqs, opsMade,
              appVars, dashVars, user, createVars>>

\* ------------------------------------------------ project creation (4.3)
\* createProject: the project row with its config; its sections are seeded at
\* once or shortly after (SrvSeedSections).
SrvCreateProject(k, c) ==
  /\ c \in calls[k] /\ Top(c) = "C" /\ c.pc = "sent"
  /\ \E p \in ProjectIds :
       /\ p \notin dbProjects /\ dbOwner[p] = NoOne
       /\ \A q \in ProjectIds : (q \notin dbProjects /\ dbOwner[q] = NoOne) => p <= q
       /\ dbProjects' = dbProjects \cup {p}
       /\ dbOwner' = [dbOwner EXCEPT ![p] = user[k]]
       /\ dbConfig' = [dbConfig EXCEPT ![p] = c.n]
       /\ calls' = [calls EXCEPT ![k] =
                      (@ \ {c}) \cup {[c EXCEPT !.pc = "responded", !.res = "created", !.p = p]}]
  /\ UNCHANGED <<dbContent, dbRevisions, dbFeedback, dbComments, lifeFrame, feedback, comments, edProject, sections,
                 generating, notice, callsMade, screen, loading, timers, last>>

\* The sections of a created project are seeded with null content, one per
\* configured title.
SrvSeedSections(p) ==
  /\ p \in dbProjects /\ NumSections(p) = 0 /\ dbConfig[p] > 0
  /\ dbContent' = [s \in SectionIds |->
                     IF s[1] = p /\ s[2] < dbConfig[p] THEN Null ELSE dbContent[s]]
  /\ UNCHANGED <<dbOwner, dbProjects, dbRevisions, dbFeedback, dbComments, dbConfig, lifeFrame,
                 feedback, comments, edProject, sections, generating, notice, callsMade, screen, loading,
                 calls, timers, last>>

\* ------------------------------------------------ CreateProject.handleCreate
\* Up to the await: n is the number of titles that are not blank; with none,
\* or without a name or a topic, the handler returns before the request.  The
\* button is disabled while a creation is in flight.
handleCreate(k, n) ==
  /\ screen[k] = "create"
  /\ n \in 1 .. MaxSections
  /\ \A c \in calls[k] : Top(c) # "C"
  /\ dbProjects = {}
  /\ calls' = [calls EXCEPT ![k] =
                 @ \cup {[NewCall("create", <<"C">>, NoTimer, TRUE, FALSE) EXCEPT !.n = n]}]
  /\ UNCHANGED <<dbVars, dbConfig, lifeFrame, feedback, comments, edProject, sections, generating, notice, callsMade, screen, loading, timers, last>>

\* POST /projects fails: rejected, or the request or its response is lost.
CreateFails(k, c) ==
  /\ c \in calls[k] /\ Top(c) = "C" /\ c.res # "failed"
  /\ calls' = [calls EXCEPT ![k] = (@ \ {c}) \cup {[c EXCEPT !.pc = "responded", !.res = "failed"]}]
  /\ UNCHANGED <<dbVars, dbConfig, lifeFrame, feedback, comments, edProject, sections, generating, notice, callsMade, screen, loading, timers, last>>

\* After the await.  On success navigate(`/project/${id}`): the router mounts
\* a ProjectEditor, whose state is the initial one and whose effect calls
\* fetchProject.
handleCreateResumes(k, c) ==
  /\ c \in calls[k] /\ Top(c) = "C" /\ c.pc = "responded"
  /\ IF c.res = "created"
       THEN /\ notice' = [notice EXCEPT ![k] = "created"]
            /\ screen' = [screen EXCEPT ![k] = "editor"]
            /\ edProject' = [edProject EXCEPT ![k] = c.p]
            /\ loading' = [loading EXCEPT ![k] = TRUE]
            /\ calls' = [calls EXCEPT ![k] =
                           (@ \ {c}) \cup {NewCall("mount", <<"F">>, NoTimer, TRUE, FALSE)}]
       ELSE /\ notice' = [notice EXCEPT ![k] = "create_failed"]
            /\ calls' = [calls EXCEPT ![k] = @ \ {c}]
            /\ UNCHANGED <<screen, edProject, loading>>
  /\ UNCHANGED <<dbVars, dbConfig, lifeFrame, feedback, comments, sections, generating, callsMade, timers,
                 last>>

\* ------------------------------------------- fetchProject of the lifecycle
\* generateContent up to the await, called in invocation c: the guard reads
\* the generating flag of c's render.
generateContentFrom(k, c, frames, st) ==
  /\ callsMade[k] < MaxInvocations
  /\ callsMade' = [callsMade EXCEPT ![k] = @ + 1]
  /\ IF c.cGenerating
       THEN Finish(k, c, [st EXCEPT !.notice = "in_progress"])
       ELSE /\ Commit(k, [st EXCEPT !.generating = TRUE, !.notice = "starting"])
            /\ calls' = [calls EXCEPT ![k] =
                           (@ \ {c}) \cup {[c EXCEPT !.stack = frames \o <<"G">>,
                                                     !.gen = callsMade[k] + 1,
                                                     !.pc = "sent", !.res = "none",
                                                     !.body = << >>]}]

\* The GETs of fetchProject are answered with a section list that is not
\* empty: the list is shown and the invocation runs to its end.
fetchProjectDone(k, c) ==
  /\ c \in calls[k] /\ Top(c) = "F"
  /\ SrvAuthorize(user[k], edProject[k]) = "ok"
  /\ NumSections(edProject[k]) > 0
  /\ IF Mounted(k) THEN fetchProject(k) ELSE UNCHANGED <<sections, feedback, comments>>
  /\ Finish(k, c, Flow(k))
  /\ UNCHANGED <<dbVars, dbConfig, lifeFrame, edProject, callsMade, screen, last>>

\* The GETs are answered with an empty section list:
\* `if (sectionsRes.data.length === 0) await generateContent()`.
fetchProjectFindsNone(k, c) ==
  /\ c \in calls[k] /\ Top(c) = "F"
  /\ SrvAuthorize(user[k], edProject[k]) = "ok"
  /\ NumSections(edProject[k]) = 0
  /\ IF Mounted(k) THEN fetchProject(k) ELSE UNCHANGED <<sections, feedback, comments>>
  /\ generateContentFrom(k, c, Rest(c) \o <<"Ff">>, Flow(k))
  /\ UNCHANGED <<dbVars, dbConfig, lifeFrame, edProject, screen, last>>

\* A GET fails (rejected, or no response): toast, navigate('/dashboard'), and
\* the invocation runs to its end.
fetchProjectFails(k, c) ==
  /\ c \in calls[k] /\ Top(c) = "F"
  /\ screen' = [screen EXCEPT ![k] = "dashboard"]
  /\ Finish(k, c, [Flow(k) EXCEPT !.notice = "load_failed"])
  /\ UNCHANGED <<dbVars, dbConfig, lifeFrame, feedback, comments, edProject, sections, callsMade,
                 last>>

\* ------------------------------------------- generation, one step (4.1)
\* Content of project p after the first m sections with null content, in
\* order index order, were generated.
Generated(p, m) ==
  LET from == NextNull(p, 0) IN
  [s \in SectionIds |->
     IF s[1] = p /\ dbContent[s] = Null /\ s[2] < from + m THEN "g1" ELSE dbContent[s]]

NullSections(p) == {s \in SectionsOf(p) : dbContent[s] = Null}

\* triggerGeneration as one step of the store: refused, already generated,
\* generated, or failed upstream after m sections.
SrvTriggerGeneration(k, c, m) ==
  LET p == edProject[k]
      a == SrvAuthorize(user[k], p)
      kind == IF a # "ok" THEN a
              ELSE IF AllGenerated(p) THEN "already_generated"
              ELSE IF m = Cardinality(NullSections(p)) THEN "generated"
              ELSE "partial" IN
  /\ c \in calls[k] /\ Top(c) = "G" /\ c.pc = "sent"
  /\ m \in 0 .. Cardinality(NullSections(p))
  /\ (a # "ok" \/ AllGenerated(p)) => m = 0
  /\ dbContent' = IF a = "ok" THEN Generated(p, m) ELSE dbContent
  /\ LET body == [i \in 1 .. NumSections(p) |->
                    RawSection(<<p, i - 1>>, dbContent'[<<p, i - 1>>])] IN
     calls' = [calls EXCEPT ![k] =
                 (@ \ {c}) \cup {[c EXCEPT !.pc = "responded", !.res = kind,
                                           !.body = IF kind = "already_generated"
                                                      THEN body ELSE << >>]}]
  /\ UNCHANGED <<dbOwner, dbProjects, dbRevisions, dbFeedback, dbComments, dbConfig, lifeFrame,
                 feedback, comments, edProject, sections, generating, notice, callsMade, screen, loading, timers, last>>

\* The POST or its response is lost: axios rejects with ERR_NETWORK.
PostLost(k, c) ==
  /\ c \in calls[k] /\ Top(c) = "G" /\ c.res # "network"
  /\ calls' = [calls EXCEPT ![k] =
                 (@ \ {c}) \cup {[c EXCEPT !.pc = "responded", !.res = "network", !.body = << >>]}]
  /\ UNCHANGED <<dbVars, dbConfig, lifeFrame, feedback, comments, edProject, sections, generating,
                 notice, callsMade, screen, loading, timers, last>>

\* ------------------------------------ generateContent of the lifecycle
\* A generateContent that polls after every failure
PollsAfter_EveryFailure(kind) == kind \notin {"generated", "already_generated"}

\* The catch branch starts checkInterval on ERR_NETWORK / 'Network Error' only.
PollsAfter(kind) == kind = "network"

\* After the await of the POST.  On "generated", and on a 400 whose detail
\* has 'already generated' (which the store of design 4.1 never answers), the
\* handler goes on to `await fetchProject()`; otherwise it runs to its end.
generateContentResumes(k, c) ==
  LET checkInterval == [kind |-> "checkInterval", cEmpty |-> c.cEmpty,
                        cGenerating |-> c.cGenerating]
      st == [Flow(k) EXCEPT !.notice = IF c.res = "already_generated_400" THEN "available"
                                       ELSE GenerationNotice(c.res)] IN
  /\ c \in calls[k] /\ Top(c) = "G" /\ c.pc = "responded"
  /\ IF c.res \in {"generated", "already_generated_400"}
       THEN /\ Commit(k, st)
            /\ calls' = [calls EXCEPT ![k] =
                           (@ \ {c}) \cup
                             {[c EXCEPT !.stack = Rest(c) \o
                                  <<IF c.res = "generated" THEN "Gf" ELSE "Ge", "F">>,
                                !.pc = "sent", !.res = "none", !.body = << >>]}]
            /\ UNCHANGED sections
       ELSE /\ sections' = [sections EXCEPT ![k] =
                              IF c.res = "already_generated" /\ Mounted(k)
                                THEN AlreadyGeneratedSections(c) ELSE @]
            /\ Finish(k, c, IF PollsAfter(c.res)
                              THEN [st EXCEPT !.timers = @ \cup {checkInterval}]
                              ELSE st)
  /\ UNCHANGED <<dbVars, dbConfig, lifeFrame, feedback, comments, edProject, callsMade, screen,
                 last>>

\* The Generate Content button, shown when the editor has loaded, is not
\* generating and has no sections: onClick={generateContent}.
clickGenerate(k) ==
  /\ Mounted(k) /\ ~loading[k] /\ ~generating[k] /\ Len(sections[k]) = 0
  /\ callsMade[k] < MaxInvocations
  /\ Cardinality(calls[k]) < MaxInFlight
  /\ callsMade' = [callsMade EXCEPT ![k] = @ + 1]
  /\ Commit(k, [Flow(k) EXCEPT !.generating = TRUE, !.notice = "starting"])
  /\ calls' = [calls EXCEPT ![k] =
                 @ \cup {[NewCall("button", <<"G">>, NoTimer, TRUE, generating[k])
                            EXCEPT !.gen = callsMade[k] + 1]}]
  /\ UNCHANGED <<dbVars, dbConfig, lifeFrame, feedback, comments, edProject, sections, screen,
                 last>>

\* ------------------------------------------------------ the two intervals
\* A callback of checkInterval (every 3000 ms): `await fetchProject()`.
checkIntervalTick(k, t) ==
  /\ t \in timers[k] /\ t.kind = "checkInterval"
  /\ Cardinality(calls[k]) < MaxInFlight
  /\ calls' = [calls EXCEPT ![k] =
                 @ \cup {NewCall("tick", <<"T", "F">>, t, t.cEmpty, t.cGenerating)}]
  /\ UNCHANGED <<dbVars, dbConfig, lifeFrame, feedback, comments, edProject, sections, generating,
                 notice, callsMade, screen, loading, timers, last>>

\* A callback of progressCheck (every 5000 ms): fetchProject if the sections
\* of its render are empty, clearInterval if not.
progressCheckTick(k, t) ==
  /\ t \in timers[k] /\ t.kind = "progressCheck"
  /\ IF t.cEmpty
       THEN /\ Cardinality(calls[k]) < MaxInFlight
            /\ calls' = [calls EXCEPT ![k] =
                           @ \cup {NewCall("tick", <<"P", "F">>, t, t.cEmpty, t.cGenerating)}]
            /\ UNCHANGED timers
       ELSE /\ timers' = [timers EXCEPT ![k] = @ \ {t}]
            /\ UNCHANGED calls
  /\ UNCHANGED <<dbVars, dbConfig, lifeFrame, feedback, comments, edProject, sections, generating,
                 notice, callsMade, screen, loading, last>>

\* A checkInterval without the setTimeout that ends it
intervalTimeout_ProgressCheckOnly(k, t) ==
  /\ t \in timers[k]
  /\ timers' = [timers EXCEPT ![k] = IF t.kind = "progressCheck" THEN @ \ {t} ELSE @]
  /\ notice' = [notice EXCEPT ![k] = IF t.kind = "checkInterval" THEN "taking_long" ELSE @]
  /\ UNCHANGED <<dbVars, dbConfig, lifeFrame, feedback, comments, edProject, sections, generating,
                 callsMade, screen, loading, calls, last>>

\* The setTimeout that ends an interval: after 120000 ms for progressCheck,
\* after 180000 ms, with a toast, for checkInterval.
intervalTimeout(k, t) ==
  /\ t \in timers[k]
  /\ timers' = [timers EXCEPT ![k] = @ \ {t}]
  /\ notice' = [notice EXCEPT ![k] = IF t.kind = "checkInterval" THEN "taking_long" ELSE @]
  /\ UNCHANGED <<dbVars, dbConfig, lifeFrame, feedback, comments, edProject, sections, generating,
                 callsMade, screen, loading, calls, last>>

\* ------------------------------------------------------------------ export
\* exportDocument of design 4.3: fails if a section has null content.
SrvExport(c, p) ==
  LET a == SrvAuthorize(c, p) IN
  IF a # "ok" THEN a
  ELSE IF \E s \in SectionsOf(p) : dbContent[s] = Null THEN "failed"
  ELSE "ok"

\* An Export button that is disabled until every section shown has content
ExportDisabled_UntilGenerated(k) ==
  \/ Len(sections[k]) = 0
  \/ generating[k]
  \/ \E i \in 1 .. Len(sections[k]) : ~Filled(sections[k][i].content)

\* <Button onClick={handleExport} disabled={sections.length === 0}>
ExportDisabled(k) == Len(sections[k]) = 0

\* The Export button can be clicked: the editor has loaded and the button is
\* not disabled.
CanExport(k) == Mounted(k) /\ ~loading[k] /\ ~ExportDisabled(k)

\* handleExport: GET /export/{projectId}, then the download and a toast, or
\* the toast 'Failed to export document'.
handleExport(k) ==
  /\ CanExport(k)
  /\ notice' = [notice EXCEPT ![k] =
                  IF SrvExport(user[k], edProject[k]) = "ok" THEN "exported" ELSE "export_failed"]
  /\ UNCHANGED <<dbVars, dbConfig, lifeFrame, feedback, comments, edProject, sections, generating,
                 callsMade, screen, loading, calls, timers, last>>

\* ----------------------------------------------------------------- SpecLife
\* One session of identity A is on the CreateProject screen; no project
\* exists yet.
Author == 1

InitCreateScreen ==
  /\ dbProjects = {}
  /\ dbOwner = [p \in ProjectIds |-> NoOne]
  /\ dbContent = [s \in SectionIds |-> Absent]
  /\ dbRevisions = [s \in SectionIds |-> << >>]
  /\ dbFeedback = {}
  /\ dbComments = [s \in SectionIds |-> << >>]
  /\ user = [k \in Clients |-> "A"]
  /\ InitSession([k \in Clients |-> "A"])
  /\ edProject = [k \in Clients |-> 1]
  /\ sections = [k \in Clients |-> << >>]
  /\ InitClients
  /\ dbConfig = [p \in ProjectIds |-> 0]
  /\ screen = [k \in Clients |-> "create"]
  /\ loading = [k \in Clients |-> TRUE]
  /\ calls = [k \in Clients |-> {}]
  /\ timers = [k \in Clients |-> {}]

InitLife == InitCreateScreen /\ InitCreateProject

\* What the user does, or not.
Gestures ==
  \/ \E n \in 1 .. MaxSections : handleCreate(Author, n)
  \/ clickGenerate(Author)
  \/ handleExport(Author)

\* What the network and the server do.
Answers ==
  \/ \E c \in calls[Author] : SrvCreateProject(Author, c)
  \/ \E c \in calls[Author] : CreateFails(Author, c)
  \/ \E p \in ProjectIds : SrvSeedSections(p)
  \/ \E c \in calls[Author] : fetchProjectDone(Author, c)
  \/ \E c \in calls[Author] : fetchProjectFindsNone(Author, c)
  \/ \E c \in calls[Author] : fetchProjectFails(Author, c)
  \/ \E c \in calls[Author] : \E m \in 0 .. MaxSections : SrvTriggerGeneration(Author, c, m)
  \/ \E c \in calls[Author] : PostLost(Author, c)

\* What the client does on its own: handlers resume, timers fire.
Resumptions ==
  \/ \E c \in calls[Author] : handleCreateResumes(Author, c)
  \/ \E c \in calls[Author] : generateContentResumes(Author, c)
  \/ \E t \in timers[Author] : checkIntervalTick(Author, t)
  \/ \E t \in timers[Author] : progressCheckTick(Author, t)
  \/ \E t \in timers[Author] : intervalTimeout(Author, t)

NextLife == Gestures \/ Answers \/ Resumptions

SpecLife == InitLife /\ [][NextLife]_vars

\* The same with what the event loop, the network and the server guarantee:
\* seeding follows creation, every request is answered or fails, a handler
\* whose await is over resumes, and the setTimeout of an interval fires.  The
\* user's gestures and the callbacks of an interval are under no obligation.
LifeFairness ==
  /\ WF_vars(\E p \in ProjectIds : SrvSeedSections(p))
  /\ WF_vars(\E c \in calls[Author] : SrvCreateProject(Author, c) \/ CreateFails(Author, c))
  /\ WF_vars(\E c \in calls[Author] :
               \/ fetchProjectDone(Author, c)
               \/ fetchProjectFindsNone(Author, c)
               \/ fetchProjectFails(Author, c))
  /\ WF_vars(\E c \in calls[Author] :
               \/ \E m \in 0 .. MaxSections : SrvTriggerGeneration(Author, c, m)
               \/ PostLost(Author, c))
  /\ WF_vars(\E c \in calls[Author] : handleCreateResumes(Author, c))
  /\ WF_vars(\E c \in calls[Author] : generateContentResumes(Author, c))
  /\ WF_vars(\E t \in timers[Author] : intervalTimeout(Author, t))

SpecLifeFair == SpecLife /\ LifeFairness

\* ------------------------------------------------- properties of SpecGen
FullyPopulated(body) == body # << >> /\ \A i \in 1 .. Len(body) : Filled(body[i].content)

Answered(k) == genCall[k].pc \in {"responded", "idle"} /\ genCall[k].kind # "none"

\* C1: a triggerGeneration that reaches the server after a pass has completed
\* leaves every section's content as that pass left it, makes no upstream
\* call, and is answered "already generated" with the current sections, which
\* the editor shows with its "Content is ready" notice.
C1_IdempotentGeneration ==
  \A k \in Clients :
    LET p == edProject[k] IN
    /\ firstGen[p] # NotYet => SrvSections(p) = firstGen[p]
    /\ (genCall[k].after /\ genCall[k].pc # "sent") =>
         /\ genCall[k].kind = "already_generated"
         /\ genCall[k].llm = 0
         /\ genCall[k].body = firstGen[p]
    /\ notice[k] = "ready" =>
         sections[k] = SrvSections(p) /\ FullyPopulated(sections[k])

C1_Witness ==
  \E k \in Clients :
    /\ callsMade[k] = 2
    /\ genCall[k].after
    /\ genCall[k].kind = "already_generated"
    /\ notice[k] = "ready"
    /\ FullyPopulated(sections[k])

C2_OnePassAtATime ==
  /\ \A p \in ProjectIds :
       /\ Cardinality({k \in Clients : edProject[k] = p /\ genCall[k].pc = "running"}) <= 1
       /\ genPass[p] # NoPass => genCall[genPass[p].client].pc = "running"
  /\ \A k \in Clients :
       (genCall[k].overlapped /\ Answered(k)) =>
         /\ genCall[k].kind \in {"generated", "already_generated", "already_generating", "partial"}
         /\ genCall[k].kind = "already_generating" =>
              genCall[k].llm = 0 /\ genCall[k].body = << >>
         /\ genCall[k].kind \in {"generated", "already_generated"} =>
              FullyPopulated(genCall[k].body)
         /\ genCall[k].llm <= NumSections(edProject[k])

C2_NoRewrite ==
  \A s \in SectionIds : Filled(dbContent[s]) => dbContent'[s] = dbContent[s]

C9_PartialFailureVisible ==
  /\ \A p \in ProjectIds : \A i, j \in Orders :
       (i < j /\ Filled(dbContent[<<p, j>>])) => Filled(dbContent[<<p, i>>])
  /\ \A k \in Clients :
       genCall[k].kind = "partial" =>
         LET b == genCall[k].body
             p == edProject[k] IN
         \E m \in 0 .. (Len(b) - 1) :
           /\ \A i \in 1 .. Len(b) : (i <= m) <=> Filled(b[i].content)
           /\ \A i \in 1 .. Len(b) : (i > m) <=> (b[i].content = Null)
           /\ m >= genCall[k].llm - 1
           /\ \A i \in 1 .. m : dbContent[<<p, i - 1>>] = b[i].content

C9_Witness ==
  \E k \in Clients :
    /\ genCall[k].kind = "partial"
    /\ genCall[k].llm = 2
    /\ Filled(genCall[k].body[1].content)
    /\ genCall[k].body[2].content = Null
    /\ dbContent[<<edProject[k], 1>>] = Null

\* ---------------------------------------------- properties of SpecEditor
IsPrefix(old, new) == Len(old) <= Len(new) /\ SubSeq(new, 1, Len(old)) = old
IsSuffix(old, new) ==
  Len(old) <= Len(new) /\ SubSeq(new, Len(new) - Len(old) + 1, Len(new)) = old

RowsOf(rows, s) == {x \in rows : x.sid = s}

\* The step in which the server settles request r with status st.
Settles(r, st) ==
  /\ r \in reqs[Editor] /\ r.st = "sent"
  /\ \E r2 \in reqs'[Editor] : r2.id = r.id /\ r2.st = st
\* The step in which the handler that sent r resumes after its await.
Resumes(r, st) == r \in reqs[Editor] /\ r.st = st /\ r \notin reqs'[Editor]
\* The step in which a handler sends r.
Sends(r) == r \in reqs'[Editor] /\ \A r0 \in reqs[Editor] : r0.id # r.id

\* C3: the revision history of every section only grows, in the store and in
\* the editor: no step removes, changes or reorders an entry (the store
\* appends, the editor shows most recent first), a successful refine adds
\* exactly one entry, placed first in the editor, and right after it the
\* newest entry's response is the section's content.
C3_HistoryKept ==
  /\ \A s \in SectionIds : IsPrefix(dbRevisions[s], dbRevisions'[s])
  /\ Len(sections'[Editor]) = Len(sections[Editor])
  /\ \A i \in 1 .. Len(sections[Editor]) :
       IsSuffix(sections[Editor][i].revisionHistory, sections'[Editor][i].revisionHistory)

C3_RefineAddsNewest ==
  \A r \in reqs[Editor] :
    /\ (r.op = "refine" /\ Settles(r, "ok")) =>
         /\ Len(dbRevisions'[r.sid]) = Len(dbRevisions[r.sid]) + 1
         /\ dbRevisions'[r.sid][Len(dbRevisions'[r.sid])].response = dbContent'[r.sid]
    /\ (r.op = "refine" /\ Resumes(r, "ok")) =>
         \A i \in 1 .. Len(sections'[Editor]) :
           sections'[Editor][i].id = r.sid =>
             /\ sections'[Editor][i].revisionHistory # << >>
             /\ sections'[Editor][i].revisionHistory[1].response = sections'[Editor][i].content

C3_RevisionHistoryOnlyGrows == [][C3_HistoryKept /\ C3_RefineAddsNewest]_vars

\* C4: a refine call that fails changes neither the section's content nor its
\* revision history: sending it and failing it leave the store's content and
\* revisions as they were, and neither sending it nor the handler's resumption
\* on the failure changes the sections the editor displays.
C4_FailedRefine ==
  \A r \in reqs[Editor] \cup reqs'[Editor] :
    r.op = "refine" =>
      /\ (Sends(r) \/ Settles(r, "fail")) =>
           /\ dbContent' = dbContent /\ dbRevisions' = dbRevisions
           /\ sections' = sections
      /\ Resumes(r, "fail") =>
           /\ dbContent' = dbContent /\ dbRevisions' = dbRevisions
           /\ sections' = sections

C4_FailedRefineLeavesUntouched == [][C4_FailedRefine]_vars

\* A refine of a section has failed and its handler has resumed; the section
\* is shown and stored with its generated content and no revision.
C4_Witness ==
  /\ last.op = "refine" /\ last.kind = "fail"
  /\ dbRevisions[last.sid] = << >> /\ dbContent[last.sid] = "g1"
  /\ \E i \in 1 .. Len(sections[Editor]) :
       /\ sections[Editor][i].id = last.sid
       /\ sections[Editor][i].content = "g1"
       /\ sections[Editor][i].revisionHistory = << >>

\* C5: a section has at most one Feedback record, and a like or dislike click
\* leaves it with exactly the click's sentiment and the comment text the click
\* carried: the request carries them, the store's record is overwritten with
\* them, and the editor then shows that sentiment.
C5_OneRecord == \A s \in SectionIds : Cardinality(RowsOf(dbFeedback, s)) <= 1

C5_Overwrites ==
  \A r \in reqs[Editor] \cup reqs'[Editor] :
    r.op = "feedback" =>
      /\ Sends(r) => r.fb \in Sentiments /\ r.comment = comments[Editor][r.sid]
      /\ Settles(r, "ok") =>
           RowsOf(dbFeedback', r.sid) =
             {[sid |-> r.sid, sentiment |-> r.fb, comment |-> r.comment]}
      /\ Resumes(r, "ok") => feedback'[Editor][r.sid] = r.fb

C5_FeedbackUpsert == [](C5_OneRecord) /\ [][C5_Overwrites]_vars

\* Two clicks on one section, a like and then a dislike that carries a
\* comment, have both been stored: the record is the second click's.
C5_Witness ==
  \E r1, r2 \in reqs[Editor] :
    /\ r1.op = "feedback" /\ r2.op = "feedback" /\ r1.sid = r2.sid /\ r1.id < r2.id
    /\ r1.st = "ok" /\ r2.st = "ok"
    /\ r1.fb = "like" /\ r2.fb = "dislike" /\ r2.comment = "n1"
    /\ RowsOf(dbFeedback, r1.sid) =
         {[sid |-> r1.sid, sentiment |-> "dislike", comment |-> "n1"]}

\* C6: feedback and comments are independent: storing a like or dislike click
\* adds no entry to any section's comments, and storing a saved comment
\* neither creates nor alters a Feedback record.
C6_Independent ==
  \A r \in reqs[Editor] :
    /\ (r.op = "feedback" /\ Settles(r, "ok")) => dbComments' = dbComments
    /\ (r.op = "comment" /\ Settles(r, "ok")) => dbFeedback' = dbFeedback

C6_FeedbackCommentIndependence == [][C6_Independent]_vars

\* ----------------------------------------------- properties of SpecStore
Deleted(p) == dbOwner[p] # NoOne /\ p \notin dbProjects
Within(p) == {s \in SectionIds : s[1] = p}

\* All the store holds for project p.
ProjectData(p) ==
  <<p \in dbProjects, [s \in Within(p) |-> dbContent[s]], [s \in Within(p) |-> dbRevisions[s]],
    {x \in dbFeedback : x.sid[1] = p}, [s \in Within(p) |-> dbComments[s]]>>

\* C7: once a project is deleted none of its Sections, Revisions, Feedback or
\* Comments exists, every later query of its owner for the project or one of
\* those is answered not-found, the deletion leaves the data of every other
\* project as it was, and the Dashboard that deleted it no longer lists it.
C7_NoDescendants ==
  \A p \in ProjectIds : p \notin dbProjects =>
    \A s \in Within(p) :
      /\ dbContent[s] = Absent /\ dbRevisions[s] = << >>
      /\ RowsOf(dbFeedback, s) = {} /\ dbComments[s] = << >>

C7_NotFound ==
  /\ \A p \in ProjectIds, k \in Clients :
       (Deleted(p) /\ user[k] = dbOwner[p]) =>
         \A op \in ProjectOps \cup SectionOps, s \in Within(p) :
           SrvRead(user[k], op, s) = "not_found"
  /\ (last.op \notin {"none", "delete"} /\ Deleted(last.sid[1])
        /\ user[last.client] = dbOwner[last.sid[1]]) => last.kind = "not_found"

C7_OthersUntouched ==
  /\ \A p \in dbProjects \ dbProjects' :
       \A q \in ProjectIds \ {p} : ProjectData(q)' = ProjectData(q)
  /\ \A k \in Clients : \A r \in dashReqs[k] \ dashReqs'[k] :
       (r.op = "delete" /\ r.st = "ok") => r.pid \notin projects'[k]

C7_CascadeDelete == [](C7_NoDescendants /\ C7_NotFound) /\ [][C7_OthersUntouched]_vars

\* Identity A deleted project 1 from the Dashboard, which now lists project 2
\* only; A's later feedback on a section of project 1 was answered not-found,
\* as a read of its revisions is, and project 2 still has its revision,
\* feedback and comment.
C7_Witness ==
  /\ Deleted(1) /\ projects[1] = {2}
  /\ last = Called(1, "feedback", <<1, 0>>, "not_found")
  /\ SrvRead("A", "get_revisions", <<1, 0>>) = "not_found"
  /\ dbRevisions[<<2, 0>>] # << >> /\ dbComments[<<2, 0>>] # << >>
  /\ RowsOf(dbFeedback, <<2, 0>>) # {}

\* C8: whatever an identity attempts on a project owned by another identity,
\* or on one of its sections, existing or not, is refused with an
\* authorization error, and the data of a project changes only in a call of
\* its owner.
C8_Refused ==
  /\ \A k \in Clients, p \in ProjectIds :
       (dbOwner[p] # NoOne /\ dbOwner[p] # user[k]) =>
         /\ SrvAuthorize(user[k], p) = "forbidden"
         /\ \A op \in ProjectOps \cup SectionOps, s \in Within(p) :
              SrvRead(user[k], op, s) = "forbidden"
  /\ (last.op # "none" /\ dbOwner[last.sid[1]] # NoOne
        /\ dbOwner[last.sid[1]] # user[last.client]) => last.kind = "forbidden"

C8_OwnerOnly ==
  /\ \A p \in ProjectIds :
       ProjectData(p)' # ProjectData(p) =>
         /\ last'.client \in Clients /\ last'.kind = "ok" /\ last'.sid[1] = p
         /\ user[last'.client] = dbOwner[p]
  /\ (last' # last /\ last'.kind = "forbidden") => dbVars' = dbVars

IsWrite(r) == r.op \in {"feedback", "comment"}

\* C12: there is no optimistic update.  Sending a feedback or comment request,
\* its failure, and the handler resuming after the failure leave the feedback
\* map, the liked and disliked flags, the saved comment lists and the comment
\* inputs exactly as they were; the feedback map and the sections shown, with
\* their flags and saved comment lists, change only when a handler resumes
\* after a successful response, and a comment input only then or by typing.
C12_FailureChangesNothing ==
  \A r \in reqs[Editor] \cup reqs'[Editor] :
    (IsWrite(r) /\ (Sends(r) \/ Settles(r, "fail") \/ Resumes(r, "fail"))) =>
      UNCHANGED <<feedback, sections, comments>>

C12_OnlyAfterSuccess ==
  /\ (feedback'[Editor] # feedback[Editor] \/ sections'[Editor] # sections[Editor]) =>
       \E r \in reqs[Editor] : Resumes(r, "ok")
  /\ comments'[Editor] # comments[Editor] =>
       \/ \E r \in reqs[Editor] : Resumes(r, "ok")
       \/ reqs'[Editor] = reqs[Editor]

C12_NoOptimisticUpdate == [][C12_FailureChangesNothing /\ C12_OnlyAfterSuccess]_vars

\* A comment was typed and sent, the request failed and the handler has
\* resumed: nothing is rated, no comment is shown, the input holds the text.
C12_Witness ==
  /\ last.op = "comment" /\ last.kind = "fail" /\ last.client = Editor
  /\ comments[Editor][last.sid] # ""
  /\ \A i \in 1 .. Len(sections[Editor]) : sections[Editor][i].persistedComments = << >>
  /\ dbComments[last.sid] = << >>

\* The saved comments the editor shows under section s, newest first.
ShownComments(secs, s) ==
  IF \E i \in 1 .. Len(secs) : secs[i].id = s
    THEN secs[CHOOSE i \in 1 .. Len(secs) : secs[i].id = s].persistedComments
    ELSE << >>

C17_BlankRejected ==
  /\ \A r \in reqs'[Editor] :
       (Sends(r) /\ r.op = "comment") =>
         r.comment # "" /\ r.comment = Trim(comments[Editor][r.sid])
  /\ \A s \in SectionIds :
       dbComments'[s] # dbComments[s] =>
         \E r \in reqs[Editor] :
           /\ r.sid = s /\ Trim(r.comment) # "" /\ Settles(r, "ok")
           /\ dbComments'[s] = Append(dbComments[s], r.comment)

C17_AddedInFront ==
  \A r \in reqs[Editor] :
    (r.op = "comment" /\ Resumes(r, "ok")) =>
      ShownComments(sections'[Editor], r.sid)
        = <<[comment |-> r.comment]>> \o ShownComments(sections[Editor], r.sid)

C17_SavedCommentsStay ==
  \A s \in SectionIds :
    IsSuffix(ShownComments(sections[Editor], s), ShownComments(sections'[Editor], s))

\* C17: a comment whose text is blank or only whitespace is rejected, no
\* request is sent and no comment is added; any other text, once saved, is
\* put in front of the section's comment list, and every comment saved before
\* it stays in the list unchanged.
C17_CommentSave ==
  [][C17_BlankRejected /\ C17_AddedInFront /\ C17_SavedCommentsStay]_vars

\* ------------------------------------------------- properties of SpecApp
\* The step in which the interceptor handles the response to request r.
Intercepts(r) ==
  /\ r \in http[Tab] /\ r.st = "responded"
  /\ http'[Tab] = (http[Tab] \ {r}) \cup {[r EXCEPT !.st = "intercepted"]}

SessionDropped ==
  /\ ssToken[Tab] = Null /\ ssUser[Tab] = NoOne
  /\ token[Tab] = Null /\ user[Tab] = NoOne
  /\ authHeader[Tab] = Null

\* C10: when the interceptor receives a response with status 401, then after
\* it the stored token and the stored user are gone from sessionStorage, the
\* token and user of the App are null and the default Authorization header is
\* not set; on a response with any other status, or on none, it leaves all
\* five as they were.
C10_Interceptor ==
  \A r \in http[Tab] :
    Intercepts(r) =>
      IF r.status = Unauthorized
        THEN SessionDropped'
        ELSE UNCHANGED <<ssToken, ssUser, token, user, authHeader>>

C10_UnauthorizedDropsSession == [][C10_Interceptor]_vars

\* A request sent with the token of a session was answered 401 and the
\* interceptor has dropped the session.
C10_Witness ==
  \E r \in http[Tab] :
    /\ r.kind = "api" /\ r.tok # Null /\ r.st = "intercepted" /\ r.status = Unauthorized
    /\ SessionDropped

\* The step in which initializeAuth resumes with the answer to the validation
\* of the stored token r.tok.
Validated(r) ==
  /\ r \in http[Tab] /\ r.kind = "validate" /\ r.st = "intercepted"
  /\ ~isInitialized[Tab] /\ isInitialized'[Tab]

LoggedInUnder(tok) ==
  /\ isInitialized[Tab]
  /\ token[Tab] = tok /\ authHeader[Tab] = tok /\ ssToken[Tab] = tok

C13_Validation ==
  /\ \A r \in http[Tab] :
       Validated(r) =>
         /\ r.tok # Null /\ ssToken[Tab] \in {r.tok, Null}
         /\ IF r.status = 200
              THEN LoggedInUnder(r.tok)' /\ user'[Tab] = IdentityOf(r.tok)
              ELSE /\ token'[Tab] = Null /\ ssToken'[Tab] = Null
                   /\ ssUser'[Tab] = NoOne /\ authHeader'[Tab] = Null
  /\ (~isInitialized[Tab] /\ isInitialized'[Tab] /\ ssToken[Tab] # Null) =>
       \E r \in http[Tab] : Validated(r)

C14_ProtectedRoutes ==
  \A path \in Paths :
    /\ Screen(Tab, path) \in Protected => (isInitialized[Tab] /\ token[Tab] # Null)
    /\ (isInitialized[Tab] /\ token[Tab] = Null) => Screen(Tab, path) = "Auth"

\* The stored token failed validation: the editor's route shows the auth screen.
C14_Witness ==
  /\ last.op = "initializeAuth" /\ last.kind = "fail"
  /\ isInitialized[Tab] /\ token[Tab] = Null /\ ssToken[Tab] = Null
  /\ Screen(Tab, "/project/:projectId") = "Auth"

\* ------------------------------------------------ properties of SpecLife
ShowsNull(k) == \E i \in 1 .. Len(sections[k]) : sections[k][i].content = Null

\* C11: the editor never lets the user invoke export before generation has
\* completed: in every state of the editor in which a section shown has null
\* content, or a generation of the editor is in progress, the Export button
\* cannot be clicked, so that no GET /export can be issued.
C11_NoExportBeforeGenerated ==
  (Mounted(Author) /\ (ShowsNull(Author) \/ generating[Author])) => ~CanExport(Author)

\* The step in which generateContent resumes after the POST of invocation c.
GenResumes(c) ==
  /\ c \in calls[Author] /\ Top(c) = "G" /\ c.pc = "responded"
  /\ \A d \in calls'[Author] : ~(Top(d) = "G" /\ d.gen = c.gen)

Failure(res) == res \notin {"generated", "already_generated"}

\* C15: after a failed generation the client polls only when the failure
\* was at the network layer: then it starts checkInterval; on a rejection or
\* any other failure it reports 'Generation failed', starts no interval and
\* issues no further generation or read request.
C15_AfterFailure ==
  \A c \in calls[Author] :
    (GenResumes(c) /\ Failure(c.res)) =>
      IF c.res = "network"
        THEN /\ notice'[Author] = "processing"
             /\ \E t \in timers'[Author] : t.kind = "checkInterval"
        ELSE /\ notice'[Author] = "failed"
             /\ timers'[Author] = timers[Author]
             /\ calls'[Author] = calls[Author] \ {c}
             /\ callsMade'[Author] = callsMade[Author]

C16_PollingGivesUp == <>[](timers[Author] = {})

\* checkInterval was started after a network error and its timeout has
\* cleared it, the sections still having no content.
C16_Witness ==
  /\ notice[Author] = "taking_long" /\ timers[Author] = {}
  /\ \A s \in SectionIds : ~Filled(dbContent[s])

HasFrame(c, f) == \E i \in 1 .. Len(c.stack) : c.stack[i] = f

\* C18: a callback of an interval only reads: every request it issues is a
\* GET, and it never issues POST /generate-content, whatever the section
\* list it fetched contains.
C18_TicksOnlyRead ==
  \A c \in calls[Author] : c.origin = "tick" => ~HasFrame(c, "G")

\* C19: within one editor instance, while a POST /generate-content of the
\* editor is outstanding, every further invocation of generateContent
\* returns with the 'already in progress' notice and issues no second POST.
C19_Invocation ==
  (callsMade'[Author] = callsMade[Author] + 1 /\ PostOutstanding(Author) # {}) =>
    /\ notice'[Author] = "in_progress"
    /\ Cardinality(PostOutstanding(Author)') = Cardinality(PostOutstanding(Author))

C19_OnePostAtATime == [][C19_Invocation]_vars

\* C20: after a project is created successfully the client opens its editor,
\* and for a freshly created project, whose sections are seeded with null
\* content, the editor triggers the generation without further action of
\* the user: once the editor has loaded the seeded sections, a
\* POST /generate-content follows in the end.
C20_GenerationFollowsCreation ==
  /\ [][\A c \in calls[Author] :
         (Top(c) = "C" /\ c.res = "created" /\ calls[Author] \cap calls'[Author] = {}
            /\ \A d \in calls'[Author] : Top(d) # "C") =>
           (Mounted(Author)' /\ edProject'[Author] = c.p)]_vars
  /\ ((Mounted(Author) /\ ~loading[Author] /\ ShowsNull(Author)) ~> (callsMade[Author] > 0))

\* ------------------------------------------------ the intervals, continued
\* C21: a poll of checkInterval that finds the project with at least one
\* section clears the interval and shows 'Content is now ready', and a
\* callback of progressCheck that runs while the editor shows sections clears
\* the interval instead of polling.
C21_CheckIntervalStops ==
  \A c \in calls[Author] :
    (Mounted(Author) /\ HasFrame(c, "T") /\ c.timer \in timers[Author]
       /\ fetchProjectDone(Author, c)) =>
      (c.timer \notin timers'[Author] /\ notice'[Author] = "now_ready")

C21_ProgressCheckStops ==
  \A t \in timers[Author] :
    (Mounted(Author) /\ Len(sections[Author]) > 0 /\ progressCheckTick(Author, t)) =>
      (t \notin timers'[Author] /\ calls'[Author] = calls[Author])

C21_PollingStopsWhenReady == [][C21_CheckIntervalStops /\ C21_ProgressCheckStops]_vars

\* ------------------------------------- properties of SpecEditor, continued
\* C22: operations on different sections do not lose each other's updates.
\* When a successful refine resumes, every other section is shown as it was
\* just before, with whatever a feedback, comment or refine that completed in
\* the meantime put there; when a successful feedback or comment resumes, every
\* other section keeps the content and the revision history a refine gave it.
C22_OthersKept ==
  \A r \in reqs[Editor] :
    Resumes(r, "ok") =>
      /\ Len(sections'[Editor]) = Len(sections[Editor])
      /\ \A i \in 1 .. Len(sections[Editor]) :
           sections[Editor][i].id # r.sid =>
             IF r.op = "refine"
               THEN sections'[Editor][i] = sections[Editor][i]
               ELSE /\ sections'[Editor][i].content = sections[Editor][i].content
                    /\ sections'[Editor][i].revisionHistory =
                         sections[Editor][i].revisionHistory

C22_NoLostUpdateAcrossSections == [][C22_OthersKept]_vars

Entries(q) == {q[i] : i \in 1 .. Len(q)}

\* C23: every revision entry pairs the instruction and the response of one
\* refine call and is filed under the section refined.  A refine request
\* carries the instruction of its section's prompt field at the click; the
\* store appends to that section, and to no other, the entry made of the
\* request's instruction and the content it answers with; the editor puts,
\* first in that section's history, the entry made of the request's
\* instruction and the answer's content, whatever the prompt fields hold by
\* then; and every entry the editor shows under a section is an entry of the
\* store's log of that section.
C23_Call ==
  \A r \in reqs[Editor] \cup reqs'[Editor] :
    r.op = "refine" =>
      /\ Sends(r) => r.prompt = refinePrompt[Editor][r.sid] /\ r.prompt # ""
      /\ Settles(r, "ok") =>
           /\ \E r2 \in reqs'[Editor] :
                /\ r2.id = r.id
                /\ dbRevisions'[r.sid] =
                     Append(dbRevisions[r.sid], [prompt |-> r.prompt, response |-> r2.content])
           /\ \A s \in SectionIds \ {r.sid} : dbRevisions'[s] = dbRevisions[s]
      /\ Resumes(r, "ok") =>
           \A i \in 1 .. Len(sections'[Editor]) :
             sections'[Editor][i].id = r.sid =>
               /\ sections'[Editor][i].revisionHistory # << >>
               /\ sections'[Editor][i].revisionHistory[1] =
                    [prompt |-> r.prompt, response |-> r.content]

C23_Filed ==
  \A i \in 1 .. Len(sections[Editor]) :
    Entries(sections[Editor][i].revisionHistory) \subseteq
      Entries(dbRevisions[sections[Editor][i].id])

C23_RevisionPairsOneCall == [](C23_Filed) /\ [][C23_Call]_vars

\* A refine of a section sent with instruction 'p1' has been answered and
\* filed in the store, and the user has meanwhile typed 'p2' into the same prompt
\* field.
C23_Witness ==
  \E r \in reqs[Editor] :
    /\ r.op = "refine" /\ r.st = "ok" /\ r.prompt = "p1"
    /\ refinePrompt[Editor][r.sid] = "p2"
    /\ dbRevisions[r.sid] = <<[prompt |-> "p1", response |-> r.content]>>

\* ------------------------------------------------ the like / dislike buttons
\* variant={(section.liked || feedback[section.id] === 'like') ? 'default' : 'outline'}
LikeActive(k, sec) == sec.liked \/ feedback[k][sec.id] = "like"

\* variant={(section.disliked || feedback[section.id] === 'dislike') ? ...}
DislikeActive(k, sec) == sec.disliked \/ feedback[k][sec.id] = "dislike"

\* -------------------------------------------------------------- SpecButtons
\* The editor of SpecEditor after the user has typed an instruction into the
\* prompt field of both sections; from there the Refine, like and dislike
\* buttons only.
InitButtons ==
  /\ dbContent = [s \in SectionIds |-> IF s \in EditorSections THEN "g1" ELSE Absent]
  /\ dbOwner = [p \in ProjectIds |-> IF p = 1 THEN "A" ELSE NoOne]
  /\ dbProjects = {1}
  /\ dbRevisions = [s \in SectionIds |-> << >>]
  /\ dbFeedback = {}
  /\ dbComments = [s \in SectionIds |-> << >>]
  /\ user = [k \in Clients |-> "A"]
  /\ InitSession([k \in Clients |-> "A"])
  /\ edProject = [k \in Clients |-> 1]
  /\ sections = [k \in Clients |->
                   IF k = Editor
                     THEN [i \in 1 .. 2 |-> RawSection(<<1, i - 1>>, "g1")]
                     ELSE << >>]
  /\ generating = [k \in Clients |-> FALSE]
  /\ notice = [k \in Clients |-> "none"]
  /\ pollTimer = [k \in Clients |-> "none"]
  /\ genCall = [k \in Clients |-> NoCall]
  /\ callsMade = [k \in Clients |-> 0]
  /\ \E typed \in [EditorSections -> Prompts] :
       refinePrompt = [k \in Clients |->
                         [s \in SectionIds |->
                            IF k = Editor /\ s \in EditorSections THEN typed[s] ELSE ""]]
  /\ refining = [k \in Clients |-> [s \in SectionIds |-> FALSE]]
  /\ feedback = [k \in Clients |-> [s \in SectionIds |-> "none"]]
  /\ comments = [k \in Clients |-> EmptyForm]
  /\ reqs = [k \in Clients |-> {}]
  /\ opsMade = [k \in Clients |-> 0]
  /\ last = NoLast
  /\ genPass = [p \in ProjectIds |-> NoPass]
  /\ firstGen = [p \in ProjectIds |-> NotYet]
  /\ projects = [k \in Clients |-> {}]
  /\ deleting = [k \in Clients |-> NoProject]
  /\ dashReqs = [k \in Clients |-> {}]
  /\ InitLoaded

NextButtons ==
  \/ \E s \in SectionIds : handleRefine(Editor, s)
  \/ \E s \in SectionIds, f \in Sentiments : handleFeedback(Editor, s, f)
  \/ \E r \in reqs[Editor] : SrvRefineContent(Editor, r)
  \/ \E r \in reqs[Editor] : SrvPostFeedback(Editor, r)
  \/ \E r \in reqs[Editor] : SrvRequestFails(Editor, r)
  \/ \E r \in reqs[Editor] : handleRefineDone(Editor, r)
  \/ \E r \in reqs[Editor] : handleRefineFailed(Editor, r)
  \/ \E r \in reqs[Editor] : handleFeedbackDone(Editor, r)
  \/ \E r \in reqs[Editor] : handleWriteFailed(Editor, r)

SpecButtons == InitButtons /\ [][NextButtons]_vars

\* C24: for every section, at most one refine request for it is on its way
\* at any time.
RefinesInFlight(s) ==
  {r \in reqs[Editor] : r.op = "refine" /\ r.sid = s /\ r.st = "sent"}

C24_RefineSerialized == \A s \in SectionIds : Cardinality(RefinesInFlight(s)) <= 1

\* C25: for every section shown, at most one of the like and dislike buttons
\* is active, and when a successful feedback click resumes the active one is
\* the sentiment clicked.
C25_AtMostOneActive ==
  \A i \in 1 .. Len(sections[Editor]) :
    ~(LikeActive(Editor, sections[Editor][i]) /\ DislikeActive(Editor, sections[Editor][i]))

C25_ClickedIsActive ==
  \A r \in reqs[Editor] :
    (r.op = "feedback" /\ Resumes(r, "ok")) =>
      \A i \in 1 .. Len(sections'[Editor]) :
        sections'[Editor][i].id = r.sid =>
          /\ LikeActive(Editor, sections[Editor][i])' = (r.fb = "like")
          /\ DislikeActive(Editor, sections[Editor][i])' = (r.fb = "dislike")

C25_OneSentimentShown == [](C25_AtMostOneActive) /\ [][C25_ClickedIsActive]_vars

\* ------------------------------------------------------ CreateProject form
MaxGestures == 2      \* gestures on the CreateProject screen

Names == {"", " ", "N"}
Topics == {"", "T"}
Titles == {"", " ", "a", " b"}     \* what the user types into a title input
DocTypes == {"docx", "pptx"}
\* Title lists the form may hold when the model starts to watch it.
TitleLists == {<<"">>, <<" ">>, <<"a">>, <<"", " ">>, <<" b", "a">>, <<"a", "", " b">>}
\* What POST /ai-template may answer with.
Suggestions == {<<"x">>, <<"x", "y">>}

FormShown == screen[Author] = "create" /\ step = 2

Gesture == formOps < MaxGestures /\ formOps' = formOps + 1

\* What no handler of CreateProject writes.
createFrame == <<genPass, firstGen, user, sections, generating, pollTimer, genCall, callsMade,
                formVars, last, appVars, dashVars, timers>>

\* What the synchronous handlers of the form leave alone.
editFrame == <<dbVars, dbConfig, edProject, notice, loading, calls, aiLoading, formLoading,
              formReqs, createFrame>>

\* The two cards of step 1
handleTypeSelect(type) ==
  /\ screen[Author] = "create" /\ step = 1 /\ Gesture
  /\ projectData' = [projectData EXCEPT !.type = type]
  /\ step' = 2
  /\ UNCHANGED <<editFrame, screen>>

\* The Back button: onClick={() => step === 1 ? navigate('/dashboard') : setStep(1)}
back ==
  /\ screen[Author] = "create" /\ Gesture
  /\ IF step = 1
       THEN screen' = [screen EXCEPT ![Author] = "dashboard"] /\ UNCHANGED step
       ELSE step' = 1 /\ UNCHANGED screen
  /\ UNCHANGED <<editFrame, projectData>>

\* onChange of the name input
typeName(v) ==
  /\ FormShown /\ Gesture /\ projectData.name # v
  /\ projectData' = [projectData EXCEPT !.name = v]
  /\ UNCHANGED <<editFrame, screen, step>>

\* onChange of the topic textarea
typeTopic(v) ==
  /\ FormShown /\ Gesture /\ projectData.topic # v
  /\ projectData' = [projectData EXCEPT !.topic = v]
  /\ UNCHANGED <<editFrame, screen, step>>

\* The title list the form shows and edits: that of the selected type.
Items(pd) == IF pd.type = "docx" THEN pd.outline ELSE pd.slides

WithItems(pd, items) ==
  IF pd.type = "docx" THEN [pd EXCEPT !.outline = items] ELSE [pd EXCEPT !.slides = items]

addItem ==
  /\ FormShown /\ Gesture
  /\ projectData' = WithItems(projectData, Append(Items(projectData), ""))
  /\ UNCHANGED <<editFrame, screen, step>>

\* The remove button of a title, shown while the list has more than one.
removeItem(index) ==
  /\ FormShown /\ Gesture
  /\ Len(Items(projectData)) > 1 /\ index \in 1 .. Len(Items(projectData))
  /\ projectData' =
       WithItems(projectData,
                 SubSeq(Items(projectData), 1, index - 1) \o
                   SubSeq(Items(projectData), index + 1, Len(Items(projectData))))
  /\ UNCHANGED <<editFrame, screen, step>>

updateItem(index, value) ==
  /\ FormShown /\ Gesture
  /\ index \in 1 .. Len(Items(projectData)) /\ Items(projectData)[index] # value
  /\ projectData' = WithItems(projectData, [Items(projectData) EXCEPT ![index] = value])
  /\ UNCHANGED <<editFrame, screen, step>>

\* --------------------------------------------------------- Smart Suggest
\* The body of POST /ai-template: the type and the topic.
NoConfig == [key |-> "", titles |-> << >>]
AiBody(pd) == [name |-> "", type |-> pd.type, topic |-> pd.topic, config |-> NoConfig]

\* handleAITemplate up to the await; the button is disabled while aiLoading
\* or without a topic.  The request keeps the projectData of its render.
handleAITemplate ==
  /\ FormShown /\ Gesture
  /\ ~aiLoading /\ projectData.topic # ""
  /\ aiLoading' = TRUE
  /\ formReqs' = formReqs \cup
       {[op |-> "ai", st |-> "sent", pd |-> projectData, body |-> AiBody(projectData),
         items |-> << >>, p |-> NoProject]}
  /\ UNCHANGED <<dbVars, dbConfig, edProject, notice, screen, loading, calls, projectData, step,
                 formLoading, createFrame>>

\* POST /ai-template { type, topic } answers with a list of titles.
SrvAiTemplate(r) ==
  /\ r \in formReqs /\ r.op = "ai" /\ r.st = "sent"
  /\ \E items \in Suggestions :
       formReqs' = (formReqs \ {r}) \cup {[r EXCEPT !.st = "ok", !.items = items]}
  /\ UNCHANGED <<dbVars, dbConfig, edProject, notice, screen, loading, calls, projectData, step,
                 aiLoading, formLoading, formOps, createFrame>>

\* A request of the form fails: rejected, or lost on the way.
FormRequestFails(r) ==
  /\ r \in formReqs /\ r.st = "sent"
  /\ formReqs' = (formReqs \ {r}) \cup {[r EXCEPT !.st = "fail"]}
  /\ UNCHANGED <<dbVars, dbConfig, edProject, notice, screen, loading, calls, projectData, step,
                 aiLoading, formLoading, formOps, createFrame>>

\* setProjectData({ ...projectData, outline: response.data.items }), or slides
Suggested(r) ==
  IF r.pd.type = "docx" THEN [r.pd EXCEPT !.outline = r.items]
  ELSE [r.pd EXCEPT !.slides = r.items]

\* handleAITemplate after the await.  CreateProject may have been unmounted
\* by then, and its setState calls are dropped.
handleAITemplateResumes(r) ==
  /\ r \in formReqs /\ r.op = "ai" /\ r.st \in {"ok", "fail"}
  /\ projectData' = IF r.st = "ok" /\ screen[Author] = "create" THEN Suggested(r)
                    ELSE projectData
  /\ notice' = [notice EXCEPT ![Author] = IF r.st = "ok" THEN "template_ok" ELSE "template_failed"]
  /\ aiLoading' = IF screen[Author] = "create" THEN FALSE ELSE aiLoading
  /\ formReqs' = formReqs \ {r}
  /\ UNCHANGED <<dbVars, dbConfig, edProject, screen, loading, calls, step, formLoading, formOps,
                 createFrame>>

\* ------------------------------------------- handleCreate, from the form
NotBlank(item) == Trim(item) # ""

\* A filter that only drops the empty titles
validItems_NotEmpty(items) == SelectSeq(items, LAMBDA item : item # "")

\* items.filter(item => item.trim())
validItems(items) == SelectSeq(items, NotBlank)

\* The body of POST /projects.
CreateBody(pd) ==
  [name |-> pd.name, type |-> pd.type, topic |-> pd.topic,
   config |-> [key |-> IF pd.type = "docx" THEN "outline" ELSE "slides",
               titles |-> validItems(Items(pd))]]

\* The Create & Generate Content button, disabled while loading: the two
\* early returns with their toasts, or the request.
handleCreateClick ==
  /\ FormShown /\ Gesture /\ ~formLoading
  /\ IF projectData.name = "" \/ projectData.topic = ""
       THEN /\ notice' = [notice EXCEPT ![Author] = "fill_required"]
            /\ UNCHANGED <<formLoading, formReqs>>
       ELSE IF Len(validItems(Items(projectData))) = 0
         THEN /\ notice' = [notice EXCEPT ![Author] = "add_one"]
              /\ UNCHANGED <<formLoading, formReqs>>
         ELSE /\ formLoading' = TRUE
              /\ formReqs' = formReqs \cup
                   {[op |-> "create", st |-> "sent", pd |-> projectData,
                     body |-> CreateBody(projectData), items |-> << >>, p |-> NoProject]}
              /\ UNCHANGED notice
  /\ UNCHANGED <<dbVars, dbConfig, edProject, screen, loading, calls, projectData, step, aiLoading,
                 createFrame>>

\* createProject of design 4.3 for a request of the form: the project row,
\* configured with the titles sent.
SrvCreateFromForm(r) ==
  /\ r \in formReqs /\ r.op = "create" /\ r.st = "sent"
  /\ \E p \in ProjectIds :
       /\ p \notin dbProjects /\ dbOwner[p] = NoOne
       /\ \A q \in ProjectIds : (q \notin dbProjects /\ dbOwner[q] = NoOne) => p <= q
       /\ dbProjects' = dbProjects \cup {p}
       /\ dbOwner' = [dbOwner EXCEPT ![p] = user[Author]]
       /\ dbConfig' = [dbConfig EXCEPT ![p] = Len(r.body.config.titles)]
       /\ formReqs' = (formReqs \ {r}) \cup {[r EXCEPT !.st = "ok", !.p = p]}
  /\ UNCHANGED <<dbContent, dbRevisions, dbFeedback, dbComments, edProject, notice, screen, loading,
                 calls, projectData, step, aiLoading, formLoading, formOps, createFrame>>

\* handleCreate after the await: navigate to the editor of the new project,
\* which mounts and calls fetchProject, or the toast; finally setLoading(false).
handleCreateFormResumes(r) ==
  /\ r \in formReqs /\ r.op = "create" /\ r.st \in {"ok", "fail"}
  /\ formReqs' = formReqs \ {r}
  /\ formLoading' = IF screen[Author] = "create" THEN FALSE ELSE formLoading
  /\ IF r.st = "ok"
       THEN /\ notice' = [notice EXCEPT ![Author] = "created"]
            /\ screen' = [screen EXCEPT ![Author] = "editor"]
            /\ edProject' = [edProject EXCEPT ![Author] = r.p]
            /\ loading' = [loading EXCEPT ![Author] = TRUE]
            /\ calls' = [calls EXCEPT ![Author] =
                           @ \cup {NewCall("mount", <<"F">>, NoTimer, TRUE, FALSE)}]
       ELSE /\ notice' = [notice EXCEPT ![Author] = "create_failed"]
            /\ UNCHANGED <<screen, edProject, loading, calls>>
  /\ UNCHANGED <<dbVars, dbConfig, projectData, step, aiLoading, formOps, createFrame>>

\* ----------------------------------------------------------------- SpecForm
\* The session of SpecLife on the CreateProject screen, a type selected and
\* the form filled in some way.
InitForm ==
  /\ InitCreateScreen
  /\ \E name \in Names, topic \in Topics, type \in DocTypes, items \in TitleLists,
        other \in {<<"">>, <<"a">>} :
       projectData = [name |-> name, type |-> type, topic |-> topic,
                      outline |-> IF type = "docx" THEN items ELSE other,
                      slides |-> IF type = "docx" THEN other ELSE items]
  /\ step = 2
  /\ aiLoading = FALSE
  /\ formLoading = FALSE
  /\ formReqs = {}
  /\ formOps = 0

NextForm ==
  \/ \E type \in DocTypes : handleTypeSelect(type)
  \/ back
  \/ \E v \in Names : typeName(v)
  \/ \E v \in Topics : typeTopic(v)
  \/ addItem
  \/ \E index \in 1 .. Len(Items(projectData)) : removeItem(index)
  \/ \E index \in 1 .. Len(Items(projectData)) : \E value \in Titles : updateItem(index, value)
  \/ handleAITemplate
  \/ handleCreateClick
  \/ \E r \in formReqs : SrvAiTemplate(r)
  \/ \E r \in formReqs : SrvCreateFromForm(r)
  \/ \E r \in formReqs : FormRequestFails(r)
  \/ \E r \in formReqs : handleAITemplateResumes(r)
  \/ \E r \in formReqs : handleCreateFormResumes(r)

SpecForm == InitForm /\ [][NextForm]_vars

\* ---------------------------------------------------- properties of SpecForm
BlankTitles == {"", " "}

\* The titles of a list that are not blank, in the order of the list.
RECURSIVE NonBlankOf(_)
NonBlankOf(list) ==
  IF list = << >> THEN << >>
  ELSE IF Head(list) \in BlankTitles THEN NonBlankOf(Tail(list))
  ELSE <<Head(list)>> \o NonBlankOf(Tail(list))

Sendable(pd) ==
  /\ pd.name # "" /\ pd.topic # ""
  /\ \E i \in 1 .. Len(Items(pd)) : Items(pd)[i] \notin BlankTitles

\* C26: a creation request is sent only from a form whose name and topic are
\* not empty and whose list of the selected type has a title that is not
\* blank; its config then holds exactly the non-blank titles of that list, in
\* their order, under 'outline' for docx and 'slides' for pptx; a click on
\* any other form sends nothing and leaves the form as it is.
C26_SentFromValidForm ==
  \A r \in formReqs' \ formReqs :
    (r.op = "create" /\ r.st = "sent") =>
      /\ Sendable(projectData)
      /\ r.body.name = projectData.name /\ r.body.topic = projectData.topic
      /\ r.body.type = projectData.type
      /\ r.body.config.key = (IF projectData.type = "docx" THEN "outline" ELSE "slides")
      /\ r.body.config.titles =
           NonBlankOf(IF projectData.type = "docx" THEN projectData.outline
                      ELSE projectData.slides)
      /\ \A i \in 1 .. Len(r.body.config.titles) : r.body.config.titles[i] \notin BlankTitles

C26_ClickOnInvalidForm ==
  (handleCreateClick /\ ~Sendable(projectData)) =>
    /\ formReqs' = formReqs
    /\ projectData' = projectData /\ step' = step

C26_ClickOnValidForm ==
  (handleCreateClick /\ Sendable(projectData)) =>
    \E r \in formReqs' \ formReqs : r.op = "create" /\ r.st = "sent"

C26_CreationValidated ==
  [][C26_SentFromValidForm /\ C26_ClickOnInvalidForm /\ C26_ClickOnValidForm]_vars

\* A creation request sent from a docx form whose outline has a blank title
\* between two others: the config holds the two, in order, under 'outline'.
C26_Witness ==
  \E r \in formReqs :
    /\ r.op = "create" /\ r.pd.type = "docx" /\ r.pd.outline = <<"a", "", " b">>
    /\ r.body.config = [key |-> "outline", titles |-> <<"a", " b">>]

\* C29: a completed Smart Suggest request changes only the title list of the
\* type it was requested for: the name, the topic and the selected type stay
\* those of the form when the response arrives, and so does the title list of
\* the other type; a failed request changes nothing.
C29_Frame ==
  \A r \in formReqs :
    (r.op = "ai" /\ screen[Author] = "create" /\ handleAITemplateResumes(r)) =>
      IF r.st = "ok"
        THEN /\ projectData'.name = projectData.name
             /\ projectData'.topic = projectData.topic
             /\ projectData'.type = projectData.type
             /\ IF r.body.type = "docx"
                  THEN projectData'.outline = r.items /\ projectData'.slides = projectData.slides
                  ELSE projectData'.slides = r.items /\ projectData'.outline = projectData.outline
        ELSE projectData' = projectData

C29_SuggestChangesOnlyItsList == [][C29_Frame]_vars

\* ------------------------------------- properties of SpecStore, continued
\* C28: on the dashboard, when a delete request that succeeded resumes, the
\* project leaves the displayed list, and no project enters the list except
\* when a fetch of the list completes: a deleted project stays absent, also
\* when deletes overlap; when a failed delete resumes the list is unchanged.
C28_Dashboard(k) ==
  /\ \A r \in dashReqs[k] :
       (r.op = "delete" /\ r.st # "sent" /\ r \notin dashReqs'[k]) =>
         IF r.st = "ok" THEN r.pid \notin projects'[k]
         ELSE projects'[k] = projects[k]
  /\ projects'[k] \ projects[k] # {} =>
       \E r \in dashReqs[k] : r.op = "list" /\ r.st # "sent" /\ r \notin dashReqs'[k]

C28_DeletedStaysAbsent == [][\A k \in Clients : C28_Dashboard(k)]_vars

\* --------------------------------------- properties of SpecApp, continued
\* C27: the three copies of the session agree.  Whenever the App's token is
\* not null, sessionStorage holds the same token and the default
\* Authorization header is 'Bearer' plus that token (authHeader holds the
\* token the header carries); and right after a logout, and right after the
\* interceptor has seen a 401, none of the three holds a token.
C27_Agree ==
  token[Tab] # Null => (ssToken[Tab] = token[Tab] /\ authHeader[Tab] = token[Tab])

LogsOut == token[Tab] # Null /\ token'[Tab] = Null /\ UNCHANGED <<http, isInitialized>>

C27_Cleared ==
  (LogsOut \/ \E r \in http[Tab] : Intercepts(r) /\ r.status = Unauthorized) =>
    (token'[Tab] = Null /\ ssToken'[Tab] = Null /\ authHeader'[Tab] = Null)

C27_SessionCopiesAgree == [](C27_Agree) /\ [][C27_Cleared]_vars

\* A request sent under A's token was answered 401, which dropped A's
\* session, and the user has since logged in as B: all three copies hold B's
\* token.
C27_Witness ==
  /\ token[Tab] = "tB" /\ ssToken[Tab] = "tB" /\ authHeader[Tab] = "tB"
  /\ \E r \in http[Tab] : r.tok = "tA" /\ r.status = Unauthorized /\ r.st = "intercepted"

\* --------------------------------------- properties of SpecLife, continued
\* C30: no interval outlives its editor.  Once the editor has been left for
\* the dashboard, no callback of an interval issues a poll, and no invocation
\* started by a callback, nor the timeout of an interval, shows a
\* notification or navigates.
Left == screen[Author] = "dashboard"

IsPoll(c) == c.origin = "tick" /\ Len(c.stack) = 2 /\ Top(c) = "F" /\ c.pc = "sent"

C30_NoPoll == \A c \in calls'[Author] \ calls[Author] : ~IsPoll(c)

C30_NoEffect ==
  ((\E c \in calls[Author] \ calls'[Author] : c.origin = "tick") \/ timers' # timers) =>
    (notice' = notice /\ screen' = screen)

C30_TimersDieWithEditor == [][Left => (C30_NoPoll /\ C30_NoEffect)]_vars

====
